---- MODULE Spec2Model ----
(***************************************************************************)
(* Anchor-snapping draggable window of project-tv                          *)
(* (client/src/components/dragable_window): the motion controller of       *)
(* index.tsx, the anchor geometry of anchors.ts, the resize geometry of    *)
(* resizer.ts and the vector arithmetic of shared/utils/vector2.ts.        *)
(*                                                                         *)
(* Numbers.  The program computes in IEEE doubles; the model computes in   *)
(* fixed point.  A length is an integer number of sub-pixels, SCALE to the *)
(* pixel; an angle is an integer number of 1/10000 radians.  Distances are *)
(* compared through their squares (Math.sqrt is monotone), and the angle   *)
(* acos(a.b / (|a||b|)) is computed as atan2(|a x b|, a.b), which is the   *)
(* same number on [0, pi].  Pointer coordinates, viewport sizes and        *)
(* margins are whole pixels, as the browser reports them.                  *)
(***************************************************************************)
EXTENDS Integers, Sequences, FiniteSets, TLC

\* ------------------------------------------------------------------------
\* Fixed-point conventions
\* ------------------------------------------------------------------------
SCALE == 4 * 10

PI == 31416

HALF_PI == 15708

Abs(n) == IF n < 0 THEN -n ELSE n

Max2(a, b) == IF a > b THEN a ELSE b

Min2(a, b) == IF a < b THEN a ELSE b

\* n / d rounded to the nearest integer (halves upwards), d > 0
RoundDiv(n, d) == (2 * n + d) \div (2 * d)

Range(seq) == {seq[i] : i \in 1..Len(seq)}

\* ------------------------------------------------------------------------
\* Vector2 (shared/utils/vector2.ts)
\* ------------------------------------------------------------------------
Vec(px, py) == [x |-> px, y |-> py]

ZERO == Vec(0, 0)

\* a whole-pixel vector in sub-pixels
Px(px, py) == Vec(px * SCALE, py * SCALE)

add(a, b) == Vec(a.x + b.x, a.y + b.y)

subtract(a, b) == Vec(a.x - b.x, a.y - b.y)

\* Squares of lengths exceed the 32-bit integers of TLC, so a square
\* is the pair <<hi, lo>> standing for hi * SQ_BASE + lo, 0 <= lo < SQ_BASE.
SQ_BASE == 1000 * 1000

Big(n) == <<n \div SQ_BASE, n % SQ_BASE>>

Square(d) ==
  LET n == Abs(d)
      a == n \div 1000
      b == n % 1000
      t == 2 * a * b * 1000 + b * b
  IN <<a * a + t \div SQ_BASE, t % SQ_BASE>>

BigSum(p, q) == <<p[1] + q[1] + (p[2] + q[2]) \div SQ_BASE, (p[2] + q[2]) % SQ_BASE>>

\* p < q and p <= q for two such pairs
Less(p, q) == p[1] < q[1] \/ (p[1] = q[1] /\ p[2] < q[2])

LessEq(p, q) == ~Less(q, p)

sqrMagnitude(v) == BigSum(Square(v.x), Square(v.y))

dot(a, b) == a.x * b.x + a.y * b.y

\* distance(a, b)^2; every comparison of two distances compares these
sqrDistance(a, b) == BigSum(Square(b.x - a.x), Square(b.y - a.y))

\* a + (b - a) * t for the factor t = f[1] / f[2]
lerp(a, b, f) ==
  Vec(a.x + RoundDiv((b.x - a.x) * f[1], f[2]),
      a.y + RoundDiv((b.y - a.y) * f[1], f[2]))

\* ---- number: the doubles of Vector2.lerp ---------------------------------
\* A finite number is a sign and a magnitude; the magnitude counts units of
\* 2^-56 in three limbs <<h, m, l>> standing for h * LIMB^2 + m * LIMB + l.
\* Every double from 2^-4 up to 2^19 is a whole number of units, and so is
\* every sum and difference of two of them.
LIMB == 16777216

\* bits of the significand of a double
PRECISION == 53

Num(neg, h, m, l) == [neg |-> neg, mag |-> <<h, m, l>>]

NumZero == Num(FALSE, 0, 0, 0)

MagLess(p, q) ==
  \/ p[1] < q[1]
  \/ p[1] = q[1] /\ p[2] < q[2]
  \/ p[1] = q[1] /\ p[2] = q[2] /\ p[3] < q[3]

MagAdd(p, q) ==
  LET l == p[3] + q[3]
      m == p[2] + q[2] + (l \div LIMB)
  IN <<p[1] + q[1] + (m \div LIMB), m % LIMB, l % LIMB>>

\* p - q for q <= p
MagSub(p, q) ==
  LET l == p[3] - q[3]
      bl == IF l < 0 THEN 1 ELSE 0
      m == p[2] - q[2] - bl
      bm == IF m < 0 THEN 1 ELSE 0
  IN <<p[1] - q[1] - bm, m + bm * LIMB, l + bl * LIMB>>

RECURSIVE BitLength(_)
BitLength(n) == IF n = 0 THEN 0 ELSE 1 + BitLength(n \div 2)

MagBits(p) ==
  IF p[1] > 0 THEN 48 + BitLength(p[1])
  ELSE IF p[2] > 0 THEN 24 + BitLength(p[2])
  ELSE BitLength(p[3])

RECURSIVE Pow2(_)
Pow2(k) == IF k = 0 THEN 1 ELSE 2 * Pow2(k - 1)

\* the double nearest to an exact result, ties to the even significand; the
\* bits that do not fit lie in the lowest limb for the magnitudes used here
RoundToDouble(p) ==
  LET r == MagBits(p) - PRECISION
  IN IF r <= 0 THEN p
     ELSE LET ulp == Pow2(r)
              rem == p[3] % ulp
              odd == (p[3] \div ulp) % 2 = 1
              up == 2 * rem > ulp \/ (2 * rem = ulp /\ odd)
          IN MagAdd(<<p[1], p[2], p[3] - rem>>, <<0, 0, IF up THEN ulp ELSE 0>>)

\* x + y of two numbers (-0 and +0 are not told apart: -0 === 0)
numberAdd(x, y) ==
  IF x.neg = y.neg
    THEN [neg |-> x.neg, mag |-> RoundToDouble(MagAdd(x.mag, y.mag))]
    ELSE IF x.mag = y.mag THEN NumZero
    ELSE IF MagLess(x.mag, y.mag)
      THEN [neg |-> y.neg, mag |-> RoundToDouble(MagSub(y.mag, x.mag))]
      ELSE [neg |-> x.neg, mag |-> RoundToDouble(MagSub(x.mag, y.mag))]

\* x - y
numberSubtract(x, y) ==
  numberAdd(x, IF y = NumZero THEN y ELSE [y EXCEPT !.neg = ~@])

\* x * t for the factors 0 and 1, both exact
numberTimes(x, t) == IF t = 1 THEN x ELSE NumZero

\* Vector2.lerp on doubles: new Vector2(a.x + (b.x - a.x) * t, a.y + (b.y - a.y) * t)
lerpNumber(a, b, t) ==
  Vec(numberAdd(a.x, numberTimes(numberSubtract(b.x, a.x), t)),
      numberAdd(a.y, numberTimes(numberSubtract(b.y, a.y), t)))

\* floor(sqrt(n)) by bisection, n a pair as above
RECURSIVE SqrtIter(_, _, _)
SqrtIter(n, lo, hi) ==
  IF lo >= hi THEN lo
  ELSE LET mid == (lo + hi + 1) \div 2
       IN IF LessEq(Square(mid), n) THEN SqrtIter(n, mid, hi) ELSE SqrtIter(n, lo, mid - 1)

\* magnitude(): |v| rounded down to a whole sub-pixel
magnitude(v) == SqrtIter(sqrMagnitude(v), 0, Abs(v.x) + Abs(v.y))

\* length of a unit vector in the fixed-point representation of directions
UNIT == 10 * 10 * 10

\* normalize(): v / |v| as a vector of length UNIT, ZERO for the zero vector
normalize(v) ==
  LET mag == magnitude(v)
  IN IF mag > 0
       THEN Vec(RoundDiv(v.x * UNIT, mag), RoundDiv(v.y * UNIT, mag))
       ELSE ZERO

\* atan(k / 64) in 1/10000 rad, k = 0..64 (index k + 1)
AtanTable ==
  <<0, 156, 312, 468, 624, 780, 935, 1089, 1244, 1397, 1550, 1702, 1853,
    2004, 2154, 2302, 2450, 2596, 2742, 2886, 3029, 3171, 3311, 3450, 3588,
    3724, 3859, 3992, 4124, 4254, 4383, 4511, 4636, 4761, 4883, 5004, 5124,
    5242, 5358, 5473, 5586, 5698, 5808, 5916, 6023, 6128, 6232, 6334, 6435,
    6534, 6632, 6728, 6823, 6917, 7009, 7099, 7188, 7276, 7363, 7448, 7532,
    7614, 7695, 7775, 7854>>

\* atan(p / q) for 0 <= p <= q, q > 0, by linear interpolation in AtanTable
AtanRatio(p, q) ==
  LET k  == (p \div 300000) + (q \div 300000) + 1
      pp == p \div k
      qq == Max2(q \div k, 1)
      t  == (pp * 6400) \div qq
      i  == Min2(t \div 100, 64)
      fr == IF i = 64 THEN 0 ELSE t % 100
      lo == AtanTable[i + 1]
      hi == AtanTable[Min2(i + 1, 64) + 1]
  IN lo + ((hi - lo) * fr) \div 100

\* atan2(cr, d) for cr >= 0, (cr, d) # (0, 0): an angle in [0, PI]
Atan2Pos(cr, d) ==
  IF d >= 0
    THEN IF cr <= d THEN AtanRatio(cr, d) ELSE HALF_PI - AtanRatio(d, cr)
    ELSE IF cr <= -d THEN PI - AtanRatio(cr, -d) ELSE HALF_PI + AtanRatio(-d, cr)

\* angleTo that takes a zero vector to be at a right angle to every vector
angleTo_zeroAtRightAngle(a, b) ==
  IF sqrMagnitude(a) = Big(0) \/ sqrMagnitude(b) = Big(0)
    THEN HALF_PI
    ELSE Atan2Pos(Abs(a.x * b.y - a.y * b.x), dot(a, b))

\* a.angleTo(b): 0 when either vector is zero, else
\* acos(clamp(a.b / sqrt(|a|^2 |b|^2), -1, 1))
angleTo(a, b) ==
  IF sqrMagnitude(a) = Big(0) \/ sqrMagnitude(b) = Big(0)
    THEN 0
    ELSE Atan2Pos(Abs(a.x * b.y - a.y * b.x), dot(a, b))

\* ------------------------------------------------------------------------
\* Anchor geometry (anchors.ts).  el is the element's offset size and vp the
\* viewport's inner size, both in whole pixels; positions are sub-pixels.
\* ------------------------------------------------------------------------
Number_MAX_VALUE == 2147483647

\* Number.MAX_VALUE as a squared distance
MAX_DISTANCE == <<Number_MAX_VALUE, 0>>

\* anchorToVec2 whose default case returns the origin
anchorToVec2_originDefault(anchor, margin, el, vp) ==
  LET left   == margin * SCALE
      center == (vp.x * SCALE) \div 2 - (el.x * SCALE) \div 2
      right  == (vp.x - el.x - margin) * SCALE
      top    == margin * SCALE
      middle == (vp.y * SCALE) \div 2 - (el.y * SCALE) \div 2
      bottom == (vp.y - el.y - margin) * SCALE
  IN CASE anchor = "NW" -> Vec(left, top)
       [] anchor = "N"  -> Vec(center, top)
       [] anchor = "NE" -> Vec(right, top)
       [] anchor = "W"  -> Vec(left, middle)
       [] anchor = "E"  -> Vec(right, middle)
       [] anchor = "SW" -> Vec(left, bottom)
       [] anchor = "S"  -> Vec(center, bottom)
       [] anchor = "SE" -> Vec(right, bottom)
       [] OTHER         -> ZERO

anchorToVec2(anchor, margin, el, vp) ==
  LET left   == margin * SCALE
      center == (vp.x * SCALE) \div 2 - (el.x * SCALE) \div 2
      right  == (vp.x - el.x - margin) * SCALE
      top    == margin * SCALE
      middle == (vp.y * SCALE) \div 2 - (el.y * SCALE) \div 2
      bottom == (vp.y - el.y - margin) * SCALE
  IN CASE anchor = "NW" -> Vec(left, top)
       [] anchor = "N"  -> Vec(center, top)
       [] anchor = "NE" -> Vec(right, top)
       [] anchor = "W"  -> Vec(left, middle)
       [] anchor = "E"  -> Vec(right, middle)
       [] anchor = "SW" -> Vec(left, bottom)
       [] anchor = "S"  -> Vec(center, bottom)
       [] anchor = "SE" -> Vec(right, bottom)
       [] OTHER         -> Vec(left, top)

\* anchorToVec2 as the earlier revision of the component defined it inline
anchorToVec2Inline(anchor, margin, el, vp) ==
  LET left   == margin * SCALE
      center == (vp.x * SCALE) \div 2 - (el.x * SCALE) \div 2
      right  == (vp.x - el.x - margin) * SCALE
      top    == margin * SCALE
      middle == (vp.y * SCALE) \div 2 - (el.y * SCALE) \div 2
      bottom == (vp.y - el.y - margin) * SCALE
  IN CASE anchor = "NE" -> Vec(left, top)
       [] anchor = "N"  -> Vec(center, top)
       [] anchor = "NW" -> Vec(right, top)
       [] anchor = "W"  -> Vec(left, middle)
       [] anchor = "E"  -> Vec(right, middle)
       [] anchor = "SW" -> Vec(left, bottom)
       [] anchor = "S"  -> Vec(center, bottom)
       [] anchor = "SE" -> Vec(right, bottom)
       [] OTHER         -> Vec(left, top)

\* the evaluation order of vec2ToAnchor
CanonicalAnchors == <<"NE", "N", "NW", "W", "E", "SW", "S", "SE">>

\* the forEach that also takes an anchor at the same distance as the closest
RECURSIVE vec2ToAnchorLoop_lastWins(_, _, _, _, _, _, _)
vec2ToAnchorLoop_lastWins(i, minDist, closestAnchor, vec2, margin, el, vp) ==
  IF i > Len(CanonicalAnchors) THEN closestAnchor
  ELSE LET anchor == CanonicalAnchors[i]
           dist   == sqrDistance(vec2, anchorToVec2(anchor, margin, el, vp))
       IN IF LessEq(dist, minDist)
            THEN vec2ToAnchorLoop_lastWins(i + 1, dist, anchor, vec2, margin, el, vp)
            ELSE vec2ToAnchorLoop_lastWins(i + 1, minDist, closestAnchor, vec2, margin, el, vp)

\* the forEach of vec2ToAnchor from index i on
RECURSIVE vec2ToAnchorLoop(_, _, _, _, _, _, _)
vec2ToAnchorLoop(i, minDist, closestAnchor, vec2, margin, el, vp) ==
  IF i > Len(CanonicalAnchors) THEN closestAnchor
  ELSE LET anchor == CanonicalAnchors[i]
           dist   == sqrDistance(vec2, anchorToVec2(anchor, margin, el, vp))
       IN IF Less(dist, minDist)
            THEN vec2ToAnchorLoop(i + 1, dist, anchor, vec2, margin, el, vp)
            ELSE vec2ToAnchorLoop(i + 1, minDist, closestAnchor, vec2, margin, el, vp)

\* vec2ToAnchor whose minDist starts at 0 instead of Number.MAX_VALUE
vec2ToAnchor_zeroMinDist(vec2, margin, el, vp) ==
  vec2ToAnchorLoop(1, Square(0), CanonicalAnchors[1], vec2, margin, el, vp)

vec2ToAnchor(vec2, margin, el, vp) ==
  vec2ToAnchorLoop(1, MAX_DISTANCE, CanonicalAnchors[1], vec2, margin, el, vp)

\* the loop that also takes a candidate at the same distance as the closest
RECURSIVE closestByDistanceLoop_lastWins(_, _, _, _, _, _, _, _)
closestByDistanceLoop_lastWins(i, currentClosestVec2, minDist, position, anchorsArray, margin, el, vp) ==
  IF i > Len(anchorsArray) THEN currentClosestVec2
  ELSE LET anchorVec2 == anchorToVec2(anchorsArray[i], margin, el, vp)
           dist       == sqrDistance(position, anchorVec2)
       IN IF LessEq(dist, minDist)
            THEN closestByDistanceLoop_lastWins(i + 1, anchorVec2, dist, position, anchorsArray, margin, el, vp)
            ELSE closestByDistanceLoop_lastWins(i + 1, currentClosestVec2, minDist, position, anchorsArray, margin, el, vp)

RECURSIVE closestByDistanceLoop(_, _, _, _, _, _, _, _)
closestByDistanceLoop(i, currentClosestVec2, minDist, position, anchorsArray, margin, el, vp) ==
  IF i > Len(anchorsArray) THEN currentClosestVec2
  ELSE LET anchorVec2 == anchorToVec2(anchorsArray[i], margin, el, vp)
           dist       == sqrDistance(position, anchorVec2)
       IN IF Less(dist, minDist)
            THEN closestByDistanceLoop(i + 1, anchorVec2, dist, position, anchorsArray, margin, el, vp)
            ELSE closestByDistanceLoop(i + 1, currentClosestVec2, minDist, position, anchorsArray, margin, el, vp)

\* closestAnchorVec2ByDistance that answers the first configured anchor
closestAnchorVec2ByDistance_firstAnchor(position, anchorsArray, margin, el, vp) ==
  anchorToVec2(anchorsArray[1], margin, el, vp)

closestAnchorVec2ByDistance(position, anchorsArray, margin, el, vp) ==
  LET first == anchorToVec2(anchorsArray[1], margin, el, vp)
  IN closestByDistanceLoop(1, first, sqrDistance(position, first),
                           position, anchorsArray, margin, el, vp)

\* 0.1 rad, the near-tie window of closestAnchorVec2ByAngle
ANGLE_TIE == 1000

\* the loop with a near-tie window of 4 rad, wider than any angle, instead of 0.1 rad
RECURSIVE closestByAngleLoop_wideTie(_, _, _, _, _, _, _, _, _)
closestByAngleLoop_wideTie(i, currentClosestVec2, minAngle, position, direction, anchorsArray, margin, el, vp) ==
  IF i > Len(anchorsArray) THEN currentClosestVec2
  ELSE LET anchorVec2 == anchorToVec2(anchorsArray[i], margin, el, vp)
           angle      == angleTo(direction, subtract(anchorVec2, position))
       IN IF Abs(angle - minAngle) < 4 * 10 * ANGLE_TIE
            THEN IF Less(sqrDistance(position, anchorVec2), sqrDistance(position, currentClosestVec2))
                   THEN closestByAngleLoop_wideTie(i + 1, anchorVec2, minAngle, position, direction, anchorsArray, margin, el, vp)
                   ELSE closestByAngleLoop_wideTie(i + 1, currentClosestVec2, minAngle, position, direction, anchorsArray, margin, el, vp)
            ELSE IF angle < minAngle
                   THEN closestByAngleLoop_wideTie(i + 1, anchorVec2, angle, position, direction, anchorsArray, margin, el, vp)
                   ELSE closestByAngleLoop_wideTie(i + 1, currentClosestVec2, minAngle, position, direction, anchorsArray, margin, el, vp)

RECURSIVE closestByAngleLoop(_, _, _, _, _, _, _, _, _)
closestByAngleLoop(i, currentClosestVec2, minAngle, position, direction, anchorsArray, margin, el, vp) ==
  IF i > Len(anchorsArray) THEN currentClosestVec2
  ELSE LET anchorVec2 == anchorToVec2(anchorsArray[i], margin, el, vp)
           angle      == angleTo(direction, subtract(anchorVec2, position))
       IN IF Abs(angle - minAngle) < ANGLE_TIE
            THEN IF Less(sqrDistance(position, anchorVec2), sqrDistance(position, currentClosestVec2))
                   THEN closestByAngleLoop(i + 1, anchorVec2, minAngle, position, direction, anchorsArray, margin, el, vp)
                   ELSE closestByAngleLoop(i + 1, currentClosestVec2, minAngle, position, direction, anchorsArray, margin, el, vp)
            ELSE IF angle < minAngle
                   THEN closestByAngleLoop(i + 1, anchorVec2, angle, position, direction, anchorsArray, margin, el, vp)
                   ELSE closestByAngleLoop(i + 1, currentClosestVec2, minAngle, position, direction, anchorsArray, margin, el, vp)

closestAnchorVec2ByAngle(position, direction, anchorsArray, margin, el, vp) ==
  closestByAngleLoop(1, anchorToVec2(anchorsArray[1], margin, el, vp), Number_MAX_VALUE,
                     position, direction, anchorsArray, margin, el, vp)

\* ------------------------------------------------------------------------
\* Resize geometry (resizer.ts).  Sizes are sub-pixels.
\* ------------------------------------------------------------------------
\* the style.cursor that setResizerPos leaves on the handle
setResizerPos(cursor, anchor) ==
  CASE anchor = "NW" -> "nw-resize"
    [] anchor = "N"  -> "n-resize"
    [] anchor = "NE" -> "ne-resize"
    [] anchor = "W"  -> "w-resize"
    [] anchor = "E"  -> "e-resize"
    [] anchor = "SW" -> "sw-resize"
    [] anchor = "S"  -> "s-resize"
    [] anchor = "SE" -> "se-resize"
    [] OTHER         -> cursor

\* setResizerPosPlacement that puts the handle at the anchor's own side
setResizerPosPlacement_anchorSide(anchor) ==
  CASE anchor = "NW" -> [top |-> "0", bottom |-> "auto", left |-> "0", right |-> "auto"]
    [] anchor = "N"  -> [top |-> "0", bottom |-> "auto", left |-> "50%", right |-> "auto"]
    [] anchor = "NE" -> [top |-> "0", bottom |-> "auto", left |-> "auto", right |-> "0"]
    [] anchor = "W"  -> [top |-> "50%", bottom |-> "auto", left |-> "0", right |-> "auto"]
    [] anchor = "E"  -> [top |-> "50%", bottom |-> "auto", left |-> "auto", right |-> "0"]
    [] anchor = "SW" -> [top |-> "auto", bottom |-> "0", left |-> "0", right |-> "auto"]
    [] anchor = "S"  -> [top |-> "auto", bottom |-> "0", left |-> "50%", right |-> "auto"]
    [] anchor = "SE" -> [top |-> "auto", bottom |-> "0", left |-> "auto", right |-> "0"]
    [] OTHER         -> [top |-> "auto", bottom |-> "0", left |-> "auto", right |-> "0"]

\* the style.top, .bottom, .left and .right that setResizerPos leaves on the
\* handle
setResizerPosPlacement(anchor) ==
  CASE anchor = "NW" -> [top |-> "auto", bottom |-> "0", left |-> "auto", right |-> "0"]
    [] anchor = "N"  -> [top |-> "auto", bottom |-> "0", left |-> "50%", right |-> "auto"]
    [] anchor = "NE" -> [top |-> "auto", bottom |-> "0", left |-> "0", right |-> "auto"]
    [] anchor = "W"  -> [top |-> "50%", bottom |-> "auto", left |-> "auto", right |-> "0"]
    [] anchor = "E"  -> [top |-> "50%", bottom |-> "auto", left |-> "0", right |-> "auto"]
    [] anchor = "SW" -> [top |-> "0", bottom |-> "auto", left |-> "auto", right |-> "0"]
    [] anchor = "S"  -> [top |-> "0", bottom |-> "auto", left |-> "50%", right |-> "auto"]
    [] anchor = "SE" -> [top |-> "0", bottom |-> "auto", left |-> "0", right |-> "auto"]
    [] OTHER         -> [top |-> "auto", bottom |-> "0", left |-> "auto", right |-> "0"]

\* 16 / 9 as numerator and denominator
ASPECT_RATIO == <<16, 9>>

\* clampedSize without the upper bound
clampedSize_noUpperBound(w, minWidth, maxWidth, aspectRatio) ==
  LET cw == Max2(minWidth, w)
  IN Vec(cw, RoundDiv(cw * aspectRatio[2], aspectRatio[1]))

\* Math.max(minWidth, Math.min(maxWidth, w)) and that width / aspectRatio
clampedSize(w, minWidth, maxWidth, aspectRatio) ==
  LET cw == Max2(minWidth, Min2(maxWidth, w))
  IN Vec(cw, RoundDiv(cw * aspectRatio[2], aspectRatio[1]))

\* getDeltaWindowSize with the signs of the n and s cases exchanged
getDeltaWindowSize_northSouthExchanged(cursor, windowStartSize, delta, minWidth, maxWidth, aspectRatio) ==
  CASE cursor \in {"ne-resize", "se-resize", "e-resize"} ->
         clampedSize(windowStartSize.x - delta.x, minWidth, maxWidth, aspectRatio)
    [] cursor \in {"nw-resize", "sw-resize", "w-resize"} ->
         clampedSize(windowStartSize.x + delta.x, minWidth, maxWidth, aspectRatio)
    [] cursor = "n-resize" ->
         clampedSize(windowStartSize.x - delta.y, minWidth, maxWidth, aspectRatio)
    [] cursor = "s-resize" ->
         clampedSize(windowStartSize.x + delta.y, minWidth, maxWidth, aspectRatio)
    [] OTHER -> windowStartSize

getDeltaWindowSize(cursor, windowStartSize, delta, minWidth, maxWidth, aspectRatio) ==
  CASE cursor \in {"ne-resize", "se-resize", "e-resize"} ->
         clampedSize(windowStartSize.x - delta.x, minWidth, maxWidth, aspectRatio)
    [] cursor \in {"nw-resize", "sw-resize", "w-resize"} ->
         clampedSize(windowStartSize.x + delta.x, minWidth, maxWidth, aspectRatio)
    [] cursor = "n-resize" ->
         clampedSize(windowStartSize.x + delta.y, minWidth, maxWidth, aspectRatio)
    [] cursor = "s-resize" ->
         clampedSize(windowStartSize.x - delta.y, minWidth, maxWidth, aspectRatio)
    [] OTHER -> windowStartSize

widthToWindowSize(newWidth, minWidth, maxWidth, aspectRatio) ==
  clampedSize(newWidth, minWidth, maxWidth, aspectRatio)

\* ------------------------------------------------------------------------
\* The motion controller (index.tsx): state of one mounted DragableWindow
\* ------------------------------------------------------------------------
VARIABLES
  phase,            \* "mounted" until the effect's cleanup has run
  anchorsArray,     \* props.anchors.split(" ")
  margin,           \* props.margin
  resize,           \* props.resize
  vp,               \* window.innerWidth, window.innerHeight (pixels)
  cssSize,          \* box size pinned by the stylesheet, ZERO if none (pixels)
  styleSize,        \* windowElement.style.width, .height
  stylePos,         \* windowElement.style.left, .top
  cursor,           \* resizer.style.cursor
  lastWindowWidthPercentage,  \* <<offsetWidth, innerWidth>> of the quotient
  isResizing,
  resizeStartMouse,
  windowStartSize,
  targetPos,
  currentPos,
  currentAnchor,
  isDragging,
  lastMouse,
  lastMove,
  rafPending,       \* updatePosition callbacks waiting for the next frame
  docMouseMove,     \* listeners of document "mousemove", in registration order
  docMouseUp,       \* listeners of document "mouseup"
  elMouseDown,      \* listeners of windowElement "mousedown"
  resizerMouseDown, \* listeners of resizer "mousedown"
  winResize,        \* listeners of window "resize"
  frames,           \* frames run since the last mousedown or mouseup, saturating
  tick,             \* parity of the frames run since the last event
  events,           \* pointer, viewport and unmount events so far, saturating
  args,             \* arguments of a call of an exported function, NoArgs if none
  result            \* <<what the call returned>>, NoResult before it returns

vars == <<phase, anchorsArray, margin, resize, vp, cssSize, styleSize, stylePos,
          cursor, lastWindowWidthPercentage, isResizing, resizeStartMouse,
          windowStartSize, targetPos, currentPos, currentAnchor, isDragging,
          lastMouse, lastMove, rafPending, docMouseMove, docMouseUp,
          elMouseDown, resizerMouseDown, winResize, frames, tick, events,
          args, result>>

\* no exported function is being called on its own
NoArgs == [fn |-> "none"]

\* result is <<>> until the call returns and <<value>> afterwards
NoResult == <<>>

\* the state as one value, so that a handler is a function from state to state
St ==
  [phase |-> phase, anchorsArray |-> anchorsArray, margin |-> margin,
   resize |-> resize, vp |-> vp, cssSize |-> cssSize, styleSize |-> styleSize,
   stylePos |-> stylePos, cursor |-> cursor,
   lastWindowWidthPercentage |-> lastWindowWidthPercentage,
   isResizing |-> isResizing, resizeStartMouse |-> resizeStartMouse,
   windowStartSize |-> windowStartSize, targetPos |-> targetPos,
   currentPos |-> currentPos, currentAnchor |-> currentAnchor,
   isDragging |-> isDragging, lastMouse |-> lastMouse, lastMove |-> lastMove,
   rafPending |-> rafPending, docMouseMove |-> docMouseMove,
   docMouseUp |-> docMouseUp, elMouseDown |-> elMouseDown,
   resizerMouseDown |-> resizerMouseDown, winResize |-> winResize,
   frames |-> frames, tick |-> tick, events |-> events]

Becomes(s) ==
  /\ phase' = s.phase
  /\ anchorsArray' = s.anchorsArray
  /\ margin' = s.margin
  /\ resize' = s.resize
  /\ vp' = s.vp
  /\ cssSize' = s.cssSize
  /\ styleSize' = s.styleSize
  /\ stylePos' = s.stylePos
  /\ cursor' = s.cursor
  /\ lastWindowWidthPercentage' = s.lastWindowWidthPercentage
  /\ isResizing' = s.isResizing
  /\ resizeStartMouse' = s.resizeStartMouse
  /\ windowStartSize' = s.windowStartSize
  /\ targetPos' = s.targetPos
  /\ currentPos' = s.currentPos
  /\ currentAnchor' = s.currentAnchor
  /\ isDragging' = s.isDragging
  /\ lastMouse' = s.lastMouse
  /\ lastMove' = s.lastMove
  /\ rafPending' = s.rafPending
  /\ docMouseMove' = s.docMouseMove
  /\ docMouseUp' = s.docMouseUp
  /\ elMouseDown' = s.elMouseDown
  /\ resizerMouseDown' = s.resizerMouseDown
  /\ winResize' = s.winResize
  /\ frames' = s.frames
  /\ tick' = s.tick
  /\ events' = s.events
  /\ UNCHANGED <<args, result>>

\* constants of the component
DRAG_LERP_FACTOR == <<1, 5>>

SNAP_LERP_FACTOR == <<11, 500>>

ANCHOR_SNAP_SPEED_THRESHOLD == 1

WINDOW_MIN_WIDTH == 200

WINDOW_MAX_WIDTH(s) == (s.vp.x * SCALE) \div 2

DEFAULT_WINDOW_WIDTH(s) == (s.vp.x * SCALE) \div 5

\* the stop distance of updatePosition, in pixels
SNAP_EPSILON == 1

\* EventTarget.addEventListener: a listener already registered is not added again
addEventListener(listeners, h) ==
  IF h \in Range(listeners) THEN listeners ELSE Append(listeners, h)

removeEventListener(listeners, h) == SelectSeq(listeners, LAMBDA g : g # h)

\* windowElement.offsetWidth, .offsetHeight: the laid-out box in whole pixels
offsetSize(s) ==
  IF s.cssSize # ZERO
    THEN s.cssSize
    ELSE Vec(RoundDiv(s.styleSize.x, SCALE), RoundDiv(s.styleSize.y, SCALE))

getWindowSize(s) == Px(offsetSize(s).x, offsetSize(s).y)

setWindowSize(s, size) == [s EXCEPT !.styleSize = size]

setWindowPos(s, position) == [s EXCEPT !.stylePos = position]

requestAnimationFrame(s) == [s EXCEPT !.rafPending = @ + 1]

\* anchorToVec2(anchor, margin, windowElement) in state s
anchorPos(s, anchor) == anchorToVec2(anchor, s.margin, offsetSize(s), s.vp)

\* ---- Browser Resize ----------------------------------------------------
\* onBrowserResize that rescales the window and leaves it where it is
onBrowserResize_sizeOnly(s, e) ==
  LET width == RoundDiv(s.vp.x * SCALE * s.lastWindowWidthPercentage[1],
                        s.lastWindowWidthPercentage[2])
  IN IF s.resize
       THEN setWindowSize(s, widthToWindowSize(width, WINDOW_MIN_WIDTH * SCALE,
                                               WINDOW_MAX_WIDTH(s), ASPECT_RATIO))
       ELSE s

\* onBrowserResize that rescales the window whether or not resize is set
onBrowserResize_alwaysRescales(s, e) ==
  LET width == RoundDiv(s.vp.x * SCALE * s.lastWindowWidthPercentage[1],
                        s.lastWindowWidthPercentage[2])
      s1 == setWindowSize(s, widthToWindowSize(width, WINDOW_MIN_WIDTH * SCALE,
                                               WINDOW_MAX_WIDTH(s), ASPECT_RATIO))
  IN setWindowPos(s1, anchorPos(s1, s1.currentAnchor))

onBrowserResize(s, e) ==
  LET width == RoundDiv(s.vp.x * SCALE * s.lastWindowWidthPercentage[1],
                        s.lastWindowWidthPercentage[2])
      s1 == IF s.resize
              THEN setWindowSize(s, widthToWindowSize(width, WINDOW_MIN_WIDTH * SCALE,
                                                      WINDOW_MAX_WIDTH(s), ASPECT_RATIO))
              ELSE s
  IN setWindowPos(s1, anchorPos(s1, s1.currentAnchor))

\* ---- Resizer -----------------------------------------------------------
resizerStart(s, e) ==
  [s EXCEPT !.isResizing = TRUE,
            !.resizeStartMouse = e,
            !.windowStartSize = getWindowSize(s),
            !.docMouseMove = addEventListener(@, "resizerMove"),
            !.docMouseUp = addEventListener(@, "resizerEnd")]

resizerMove(s, e) ==
  IF ~s.isResizing THEN s
  ELSE LET delta == subtract(e, s.resizeStartMouse)
           s1 == setWindowSize(s, getDeltaWindowSize(s.cursor, s.windowStartSize, delta,
                                                      WINDOW_MIN_WIDTH * SCALE,
                                                      WINDOW_MAX_WIDTH(s), ASPECT_RATIO))
           s2 == [s1 EXCEPT !.lastWindowWidthPercentage = <<offsetSize(s1).x, s1.vp.x>>]
       IN setWindowPos(s2, anchorPos(s2, s2.currentAnchor))

resizerEnd(s, e) ==
  [s EXCEPT !.isResizing = FALSE,
            !.docMouseMove = removeEventListener(@, "resizerMove"),
            !.docMouseUp = removeEventListener(@, "resizerEnd")]

\* ---- Animation ---------------------------------------------------------
\* updatePosition that requests the next frame whatever the distance
updatePosition_alwaysReschedules(s) ==
  LET lerpFactor == IF s.isDragging THEN DRAG_LERP_FACTOR ELSE SNAP_LERP_FACTOR
  IN CHOOSE r \in
       {requestAnimationFrame(s1) :
          s1 \in {setWindowPos([s EXCEPT !.currentPos = pos], pos) :
                    pos \in {lerp(s.currentPos, s.targetPos, lerpFactor)}}} : TRUE

\* pos is the lerped position and s1 the state once it is stored and written
\* to the element's style; r is the state the callback leaves
updatePosition(s) ==
  LET lerpFactor == IF s.isDragging THEN DRAG_LERP_FACTOR ELSE SNAP_LERP_FACTOR
  IN CHOOSE r \in
       {IF s1.isDragging
           \/ Less(Square(SNAP_EPSILON * SCALE), sqrDistance(s1.currentPos, s1.targetPos))
          THEN requestAnimationFrame(s1)
          ELSE s1 :
          s1 \in {setWindowPos([s EXCEPT !.currentPos = pos], pos) :
                    pos \in {lerp(s.currentPos, s.targetPos, lerpFactor)}}} : TRUE

\* ---- Drag --------------------------------------------------------------
\* dragStart that leaves targetPos and currentPos where they are
dragStart_keepsPositions(s, e) ==
  IF s.isResizing THEN s
  ELSE requestAnimationFrame(
         [s EXCEPT !.isDragging = TRUE,
                   !.lastMove = ZERO,
                   !.lastMouse = e,
                   !.docMouseMove = addEventListener(@, "dragMove"),
                   !.docMouseUp = addEventListener(@, "dragEnd")])

\* dragStart without the early return while a resize is in progress
dragStart_noResizingGuard(s, e) ==
  LET pos == anchorPos(s, s.currentAnchor)
  IN requestAnimationFrame(
       [s EXCEPT !.isDragging = TRUE,
                 !.lastMove = ZERO,
                 !.lastMouse = e,
                 !.targetPos = pos,
                 !.currentPos = pos,
                 !.docMouseMove = addEventListener(@, "dragMove"),
                 !.docMouseUp = addEventListener(@, "dragEnd")])

dragStart(s, e) ==
  IF s.isResizing THEN s
  ELSE LET pos == anchorPos(s, s.currentAnchor)
       IN requestAnimationFrame(
            [s EXCEPT !.isDragging = TRUE,
                      !.lastMove = ZERO,
                      !.lastMouse = e,
                      !.targetPos = pos,
                      !.currentPos = pos,
                      !.docMouseMove = addEventListener(@, "dragMove"),
                      !.docMouseUp = addEventListener(@, "dragEnd")])

\* dragMove that adds the pointer's delta to the rendered position
dragMove_fromRenderedPos(s, e) ==
  LET move == subtract(e, s.lastMouse)
  IN [s EXCEPT !.lastMove = move,
               !.lastMouse = e,
               !.targetPos = add(s.currentPos, move)]

dragMove(s, e) ==
  LET move == subtract(e, s.lastMouse)
  IN [s EXCEPT !.lastMove = move,
               !.lastMouse = e,
               !.targetPos = add(s.targetPos, move)]

\* the anchor position dragEnd snaps to: by angle for a fast last move,
\* by distance otherwise (`if (lastMove)` holds for every Vector2)
dragEndTarget_atLeastThreshold(s) ==
  IF LessEq(Square(ANCHOR_SNAP_SPEED_THRESHOLD * SCALE), sqrMagnitude(s.lastMove))
    THEN closestAnchorVec2ByAngle(s.currentPos, normalize(s.lastMove),
                                  s.anchorsArray, s.margin, offsetSize(s), s.vp)
    ELSE closestAnchorVec2ByDistance(s.targetPos,
                                     s.anchorsArray, s.margin, offsetSize(s), s.vp)

dragEndTarget(s) ==
  IF Less(Square(ANCHOR_SNAP_SPEED_THRESHOLD * SCALE), sqrMagnitude(s.lastMove))
    THEN closestAnchorVec2ByAngle(s.currentPos, normalize(s.lastMove),
                                  s.anchorsArray, s.margin, offsetSize(s), s.vp)
    ELSE closestAnchorVec2ByDistance(s.targetPos,
                                     s.anchorsArray, s.margin, offsetSize(s), s.vp)

\* dragEnd that leaves currentAnchor as it is
dragEnd_keepsAnchor(s, e) ==
  LET target == dragEndTarget(s)
  IN requestAnimationFrame(
       [s EXCEPT !.isDragging = FALSE,
                 !.docMouseMove = removeEventListener(@, "dragMove"),
                 !.docMouseUp = removeEventListener(@, "dragEnd"),
                 !.targetPos = target,
                 !.cursor = setResizerPos(@, s.currentAnchor)])

\* dragEnd that leaves its document listeners registered
dragEnd_keepsListeners(s, e) ==
  LET target == dragEndTarget(s)
      anchor == vec2ToAnchor(target, s.margin, offsetSize(s), s.vp)
  IN requestAnimationFrame(
       [s EXCEPT !.isDragging = FALSE,
                 !.targetPos = target,
                 !.currentAnchor = anchor,
                 !.cursor = setResizerPos(@, anchor)])

dragEnd(s, e) ==
  LET target == dragEndTarget(s)
      anchor == vec2ToAnchor(target, s.margin, offsetSize(s), s.vp)
  IN requestAnimationFrame(
       [s EXCEPT !.isDragging = FALSE,
                 !.docMouseMove = removeEventListener(@, "dragMove"),
                 !.docMouseUp = removeEventListener(@, "dragEnd"),
                 !.targetPos = target,
                 !.currentAnchor = anchor,
                 !.cursor = setResizerPos(@, anchor)])

\* ---- Drag, as the revision with the rolling average has it ----------------
\* there lastMove is the array of the most recent drag-move deltas
MOVE_AVERAGE_COUNT == 5

\* ANCHOR_SNAP_SPEED_THRESHOLD of that revision
ROLLING_SNAP_SPEED_THRESHOLD == 2

rollingDragStart(s, e) ==
  IF s.isResizing THEN s
  ELSE LET pos == anchorPos(s, s.currentAnchor)
       IN requestAnimationFrame(
            [s EXCEPT !.isDragging = TRUE,
                      !.lastMove = <<>>,
                      !.lastMouse = e,
                      !.targetPos = pos,
                      !.currentPos = pos,
                      !.docMouseMove = addEventListener(@, "rollingDragMove"),
                      !.docMouseUp = addEventListener(@, "rollingDragEnd")])

\* rollingShift that evicts the newest delta
RECURSIVE rollingShift_dropsNewest(_)
rollingShift_dropsNewest(moves) ==
  IF Len(moves) > MOVE_AVERAGE_COUNT
    THEN rollingShift_dropsNewest(SubSeq(moves, 1, Len(moves) - 1))
    ELSE moves

\* while (lastMove.length > MOVE_AVERAGE_COUNT) lastMove.shift()
RECURSIVE rollingShift(_)
rollingShift(moves) ==
  IF Len(moves) > MOVE_AVERAGE_COUNT THEN rollingShift(Tail(moves)) ELSE moves

rollingDragMove(s, e) ==
  LET delta == subtract(e, s.lastMouse)
  IN [s EXCEPT !.lastMove = rollingShift(Append(s.lastMove, delta)),
               !.lastMouse = e,
               !.targetPos = add(s.targetPos, delta)]

\* the sum of the deltas, added up from Vector2.ZERO in array order
RECURSIVE rollingSum(_)
rollingSum(moves) ==
  IF moves = <<>> THEN ZERO
  ELSE add(rollingSum(SubSeq(moves, 1, Len(moves) - 1)), moves[Len(moves)])

\* the sum multiplied by 1 / length in both components
moveAverage(moves) ==
  Vec(RoundDiv(rollingSum(moves).x, Len(moves)), RoundDiv(rollingSum(moves).y, Len(moves)))

\* `if (lastMove[lastMove.length - 1])` holds when the array is not empty
rollingDragEndTarget(s) ==
  IF /\ s.lastMove # <<>>
     /\ Less(Square(ROLLING_SNAP_SPEED_THRESHOLD * SCALE), sqrMagnitude(moveAverage(s.lastMove)))
    THEN closestAnchorVec2ByAngle(s.currentPos, normalize(moveAverage(s.lastMove)),
                                  s.anchorsArray, s.margin, offsetSize(s), s.vp)
    ELSE closestAnchorVec2ByDistance(s.targetPos,
                                     s.anchorsArray, s.margin, offsetSize(s), s.vp)

rollingDragEnd(s, e) ==
  LET target == rollingDragEndTarget(s)
      anchor == vec2ToAnchor(target, s.margin, offsetSize(s), s.vp)
  IN requestAnimationFrame(
       [s EXCEPT !.isDragging = FALSE,
                 !.docMouseMove = removeEventListener(@, "rollingDragMove"),
                 !.docMouseUp = removeEventListener(@, "rollingDragEnd"),
                 !.targetPos = target,
                 !.currentAnchor = anchor,
                 !.cursor = setResizerPos(@, anchor)])

\* ---- Cleanup -----------------------------------------------------------
cleanup(s) ==
  [s EXCEPT !.phase = "unmounted",
            !.elMouseDown = removeEventListener(@, "dragStart"),
            !.docMouseMove = removeEventListener(removeEventListener(@, "dragMove"), "resizerMove"),
            !.docMouseUp = removeEventListener(removeEventListener(@, "dragEnd"), "resizerEnd"),
            !.winResize = removeEventListener(@, "onBrowserResize")]

\* ---- the effect body: state after mount ---------------------------------
\* Mount that resolves the first anchor for the size the element has before
\* the effect sizes it
Mount_placedBeforeSizing(anchors, m, rs, viewport, css, autoWidth) ==
  LET s0 == [phase |-> "mounted", anchorsArray |-> anchors, margin |-> m,
             resize |-> rs, vp |-> viewport, cssSize |-> css,
             styleSize |-> ZERO, stylePos |-> ZERO, cursor |-> "",
             lastWindowWidthPercentage |->
               <<(IF css # ZERO THEN css.x ELSE autoWidth), viewport.x>>,
             isResizing |-> FALSE, resizeStartMouse |-> ZERO,
             windowStartSize |-> ZERO, targetPos |-> ZERO, currentPos |-> ZERO,
             currentAnchor |-> anchors[1], isDragging |-> FALSE,
             lastMouse |-> ZERO, lastMove |-> ZERO, rafPending |-> 0,
             docMouseMove |-> <<>>, docMouseUp |-> <<>>,
             elMouseDown |-> <<"dragStart">>,
             resizerMouseDown |-> (IF rs THEN <<"resizerStart">> ELSE <<>>),
             winResize |-> <<"onBrowserResize">>, frames |-> 0, tick |-> 0,
             events |-> 0]
      s1 == setWindowSize(s0, widthToWindowSize(DEFAULT_WINDOW_WIDTH(s0), WINDOW_MIN_WIDTH * SCALE,
                                                WINDOW_MAX_WIDTH(s0), ASPECT_RATIO))
      s2 == [s1 EXCEPT !.windowStartSize = getWindowSize(s1)]
      pos == anchorPos(s0, anchors[1])
  IN [setWindowPos(s2, pos) EXCEPT !.targetPos = pos,
                                   !.currentPos = pos,
                                   !.cursor = setResizerPos(@, anchors[1])]

Mount(anchors, m, rs, viewport, css, autoWidth) ==
  LET s0 == [phase |-> "mounted", anchorsArray |-> anchors, margin |-> m,
             resize |-> rs, vp |-> viewport, cssSize |-> css,
             styleSize |-> ZERO, stylePos |-> ZERO, cursor |-> "",
             lastWindowWidthPercentage |->
               <<(IF css # ZERO THEN css.x ELSE autoWidth), viewport.x>>,
             isResizing |-> FALSE, resizeStartMouse |-> ZERO,
             windowStartSize |-> ZERO, targetPos |-> ZERO, currentPos |-> ZERO,
             currentAnchor |-> anchors[1], isDragging |-> FALSE,
             lastMouse |-> ZERO, lastMove |-> ZERO, rafPending |-> 0,
             docMouseMove |-> <<>>, docMouseUp |-> <<>>,
             elMouseDown |-> <<"dragStart">>,
             resizerMouseDown |-> (IF rs THEN <<"resizerStart">> ELSE <<>>),
             winResize |-> <<"onBrowserResize">>, frames |-> 0, tick |-> 0,
             events |-> 0]
      s1 == setWindowSize(s0, widthToWindowSize(DEFAULT_WINDOW_WIDTH(s0), WINDOW_MIN_WIDTH * SCALE,
                                                WINDOW_MAX_WIDTH(s0), ASPECT_RATIO))
      s2 == [s1 EXCEPT !.windowStartSize = getWindowSize(s1)]
      pos == anchorPos(s2, anchors[1])
  IN [setWindowPos(s2, pos) EXCEPT !.targetPos = pos,
                                   !.currentPos = pos,
                                   !.cursor = setResizerPos(@, anchors[1])]

\* ---- event dispatch ------------------------------------------------------
Call(h, s, e) ==
  CASE h = "dragStart"       -> dragStart(s, e)
    [] h = "dragMove"        -> dragMove(s, e)
    [] h = "dragEnd"         -> dragEnd(s, e)
    [] h = "resizerStart"    -> resizerStart(s, e)
    [] h = "resizerMove"     -> resizerMove(s, e)
    [] h = "resizerEnd"      -> resizerEnd(s, e)
    [] h = "onBrowserResize" -> onBrowserResize(s, e)
    [] h = "rollingDragStart" -> rollingDragStart(s, e)
    [] h = "rollingDragMove"  -> rollingDragMove(s, e)
    [] h = "rollingDragEnd"   -> rollingDragEnd(s, e)

\* the listeners registered for `type` when the event is dispatched are called
\* in registration order; one removed by an earlier listener is skipped
RECURSIVE DispatchLoop(_, _, _, _)
DispatchLoop(type, pending, s, e) ==
  IF pending = <<>> THEN s
  ELSE LET h == Head(pending)
       IN DispatchLoop(type, Tail(pending),
                       IF h \in Range(s[type]) THEN Call(h, s, e) ELSE s, e)

Dispatch(type, s, e) == DispatchLoop(type, s[type], s, e)

\* one animation frame: every callback requested before the frame runs once
RECURSIVE RunCallbacks(_, _)
RunCallbacks(s, k) ==
  IF k = 0 THEN s
  ELSE CHOOSE r \in {RunCallbacks(t, k - 1) : t \in {updatePosition(s)}} : TRUE

\* ------------------------------------------------------------------------
\* Bounds and inputs of the model
\* ------------------------------------------------------------------------
\* most animation frames counted between two pointer-button events
MaxFrames == 1

\* props.anchors: the miniplayer's corners, and a window along the top edge
AnchorConfigs == {<<"SW", "NW", "NE", "SE">>, <<"NW", "N", "NE">>}

Margins == {15}

\* inner size of the browser window at mount, and the sizes it is resized to
MountViewports == {Vec(800, 600)}

Viewports == {Vec(800, 600), Vec(1000, 800)}

\* width of the window's box before the effect sizes it (an iframe's default)
AutoWidths == {300}

\* clientX, clientY of the pointer events
MousePoints == {Px(100, 100), Px(580, 100), Px(581, 100), Px(100, 240)}

\* most pointer, viewport and unmount events of one behaviour
MaxEvents == 4

\* ------------------------------------------------------------------------
\* Specification
\* ------------------------------------------------------------------------
StartsWith(s, a) ==
  /\ args = a
  /\ result = NoResult
  /\ phase = s.phase
  /\ anchorsArray = s.anchorsArray
  /\ margin = s.margin
  /\ resize = s.resize
  /\ vp = s.vp
  /\ cssSize = s.cssSize
  /\ styleSize = s.styleSize
  /\ stylePos = s.stylePos
  /\ cursor = s.cursor
  /\ lastWindowWidthPercentage = s.lastWindowWidthPercentage
  /\ isResizing = s.isResizing
  /\ resizeStartMouse = s.resizeStartMouse
  /\ windowStartSize = s.windowStartSize
  /\ targetPos = s.targetPos
  /\ currentPos = s.currentPos
  /\ currentAnchor = s.currentAnchor
  /\ isDragging = s.isDragging
  /\ lastMouse = s.lastMouse
  /\ lastMove = s.lastMove
  /\ rafPending = s.rafPending
  /\ docMouseMove = s.docMouseMove
  /\ docMouseUp = s.docMouseUp
  /\ elMouseDown = s.elMouseDown
  /\ resizerMouseDown = s.resizerMouseDown
  /\ winResize = s.winResize
  /\ frames = s.frames
  /\ tick = s.tick
  /\ events = s.events

StartsAs(s) == StartsWith(s, NoArgs)

Init ==
  \E anchors \in AnchorConfigs, m \in Margins, rs \in BOOLEAN,
     viewport \in MountViewports, w \in AutoWidths :
    StartsAs(Mount(anchors, m, rs, viewport, ZERO, w))

\* bookkeeping of the model: one more event has been delivered
Counted(s) == [s EXCEPT !.events = Min2(@ + 1, MaxEvents), !.tick = 0]

\* mousedown on the window body outside the resize handle
MouseDownWindow(e) ==
  /\ events < MaxEvents
  /\ elMouseDown # <<>>
  /\ Becomes(Counted([Dispatch("elMouseDown", St, e) EXCEPT !.frames = 0]))

\* mousedown on the resize handle, a child of the window body: the handle's
\* listeners run first, then the event bubbles to the body's
MouseDownResizer(e) ==
  /\ events < MaxEvents
  /\ resizerMouseDown # <<>>
  /\ Becomes(Counted([Dispatch("elMouseDown", Dispatch("resizerMouseDown", St, e), e)
                        EXCEPT !.frames = 0]))

\* mousemove anywhere in the document
MouseMove(e) ==
  /\ events < MaxEvents
  /\ docMouseMove # <<>>
  /\ Becomes(Counted(Dispatch("docMouseMove", St, e)))

\* mouseup anywhere in the document
MouseUp ==
  /\ events < MaxEvents
  /\ docMouseUp # <<>>
  /\ Becomes(Counted([Dispatch("docMouseUp", St, ZERO) EXCEPT !.frames = 0]))

\* the browser window is resized to v
BrowserResize(v) ==
  /\ events < MaxEvents
  /\ v # vp
  /\ Becomes(Counted(Dispatch("winResize", [St EXCEPT !.vp = v], ZERO)))

\* the next animation frame
Frame ==
  /\ rafPending > 0
  /\ \E s \in {[St EXCEPT !.rafPending = 0]} :
       \E t \in {RunCallbacks(s, rafPending)} :
         Becomes([t EXCEPT !.frames = Min2(@ + 1, MaxFrames), !.tick = 1 - @])

\* a frame of the bounded specification
BoundedFrame ==
  /\ frames < MaxFrames
  /\ Frame

\* React runs the effect's cleanup
Unmount ==
  /\ events < MaxEvents
  /\ phase = "mounted"
  /\ Becomes(Counted(cleanup(St)))

Next ==
  \/ \E e \in MousePoints : MouseDownWindow(e)
  \/ \E e \in MousePoints : MouseDownResizer(e)
  \/ \E e \in MousePoints : MouseMove(e)
  \/ MouseUp
  \/ \E v \in Viewports : BrowserResize(v)
  \/ Unmount
  \/ BoundedFrame

Spec == Init /\ [][Next]_vars

\* ---- the animation loop run to its end -----------------------------------
\* clientX, clientY of the pointer events of the smaller specifications
TwoPoints == {Px(100, 100), Px(580, 100)}

AnimInit ==
  \E anchors \in AnchorConfigs, m \in Margins, viewport \in MountViewports,
     w \in AutoWidths :
    StartsAs(Mount(anchors, m, FALSE, viewport, ZERO, w))

\* the next animation frame; only the frames of a drag in progress are counted
AnimFrame ==
  /\ (isDragging /\ phase = "mounted") => frames < MaxFrames
  /\ Frame

AnimNext ==
  \/ \E e \in TwoPoints : MouseDownWindow(e)
  \/ \E e \in TwoPoints : MouseMove(e)
  \/ MouseUp
  \/ Unmount
  \/ AnimFrame

\* the browser runs a requested animation frame callback at the next repaint
AnimSpec == AnimInit /\ [][AnimNext]_vars /\ WF_vars(AnimFrame)

\* ---- a viewport resize while the window is moving ---------------------------
\* inner size of the browser window after the resize
GrownViewport == Vec(1000, 800)

\* the resize event arrives while a drag is in progress or a frame is pending
InFlightResize ==
  /\ isDragging \/ rafPending > 0
  /\ BrowserResize(GrownViewport)

InFlightNext ==
  \/ \E e \in TwoPoints : MouseDownWindow(e)
  \/ \E e \in TwoPoints : MouseMove(e)
  \/ MouseUp
  \/ InFlightResize
  \/ AnimFrame

InFlightSpec == AnimInit /\ [][InFlightNext]_vars /\ WF_vars(AnimFrame)

\* ---- the resize handle in a viewport that stays as it is -------------------
HandleInit ==
  \E anchors \in AnchorConfigs, m \in Margins, viewport \in MountViewports,
     w \in AutoWidths :
    StartsAs(Mount(anchors, m, TRUE, viewport, ZERO, w))

HandleNext ==
  \/ \E e \in MousePoints : MouseDownWindow(e)
  \/ \E e \in MousePoints : MouseDownResizer(e)
  \/ \E e \in MousePoints : MouseMove(e)
  \/ MouseUp
  \/ BoundedFrame

HandleSpec == HandleInit /\ [][HandleNext]_vars

\* ---- the window without resizing (resize = false, the default) -----------
\* mousedown on the #resizer element, which is rendered in either case: its
\* own listeners run, if it has any, and the event bubbles to the window body
MouseDownHandleArea(e) ==
  /\ events < MaxEvents
  /\ elMouseDown # <<>>
  /\ Becomes(Counted([Dispatch("elMouseDown", Dispatch("resizerMouseDown", St, e), e)
                        EXCEPT !.frames = 0]))

FixedSizeNext ==
  \/ \E e \in MousePoints : MouseDownWindow(e)
  \/ \E e \in MousePoints : MouseDownHandleArea(e)
  \/ \E e \in MousePoints : MouseMove(e)
  \/ MouseUp
  \/ \E v \in Viewports : BrowserResize(v)
  \/ Unmount
  \/ BoundedFrame

FixedSizeSpec == AnimInit /\ [][FixedSizeNext]_vars

\* ---- the resizable window in a viewport narrower than 400 px ---------------
NarrowViewports == {Vec(800, 600), Vec(320, 568)}

NarrowInit ==
  \E viewport \in NarrowViewports, w \in AutoWidths :
    StartsAs(Mount(<<"SW", "NW", "NE", "SE">>, 15, TRUE, viewport, ZERO, w))

NarrowNext ==
  \/ \E e \in TwoPoints : MouseDownResizer(e)
  \/ \E e \in TwoPoints : MouseMove(e)
  \/ MouseUp
  \/ \E v \in NarrowViewports : BrowserResize(v)

NarrowSpec == NarrowInit /\ [][NarrowNext]_vars

\* ---- the revision with the rolling average of drag-move deltas -------------
\* most pointer events of one behaviour of that revision
MaxRollingEvents == 8

\* clientX, clientY of its pointer events
RollingPoints == {Px(100, 100), Px(103, 100), Px(100, 104)}

\* its state after mount: the element's box is sized by the stylesheet
RollingInit ==
  \E anchors \in {<<"SW", "NW", "NE", "SE">>}, m \in Margins,
     viewport \in MountViewports, css \in {Vec(200, 113)},
     w \in AutoWidths :
    StartsAs([Mount(anchors, m, FALSE, viewport, css, w)
                EXCEPT !.lastMove = <<>>,
                       !.elMouseDown = <<"rollingDragStart">>])

\* bookkeeping of the model: one more pointer event has been delivered
RollingCounted(s) == [s EXCEPT !.events = @ + 1, !.tick = 0]

RollingMouseDown(e) ==
  /\ events < MaxRollingEvents
  /\ ~isDragging
  /\ Becomes(RollingCounted([Dispatch("elMouseDown", St, e) EXCEPT !.frames = 0]))

RollingMouseMove(e) ==
  /\ events < MaxRollingEvents
  /\ docMouseMove # <<>>
  /\ Becomes(RollingCounted(Dispatch("docMouseMove", St, e)))

RollingMouseUp ==
  /\ events < MaxRollingEvents
  /\ docMouseUp # <<>>
  /\ Becomes(RollingCounted([Dispatch("docMouseUp", St, ZERO) EXCEPT !.frames = 0]))

RollingNext ==
  \/ \E e \in RollingPoints : RollingMouseDown(e)
  \/ \E e \in RollingPoints : RollingMouseMove(e)
  \/ RollingMouseUp
  \/ BoundedFrame

RollingSpec == RollingInit /\ [][RollingNext]_vars

\* ---- the anchor geometry ----------------------------------------------------
GeoMargins == {0, 15}

\* viewports with room around the window, with exactly two margins of room
\* in one axis, and smaller than the window
GeoViewports == {Vec(800, 600), Vec(230, 600), Vec(800, 143), Vec(150, 100)}

\* size a stylesheet pins the window's box to; ZERO when none does
GeoSizes == {ZERO, Vec(100, 100)}

GeoInit ==
  \E anchors \in AnchorConfigs, m \in GeoMargins, viewport \in GeoViewports,
     css \in GeoSizes, w \in AutoWidths :
    StartsAs(Mount(anchors, m, FALSE, viewport, css, w))

GeoNext ==
  \/ \E e \in TwoPoints : MouseDownWindow(e)
  \/ \E e \in TwoPoints : MouseMove(e)
  \/ MouseUp
  \/ \E v \in GeoViewports : BrowserResize(v)
  \/ BoundedFrame

GeoSpec == GeoInit /\ [][GeoNext]_vars

\* ---- two bottom corners in a viewport that may be two margins higher than
\* the window -----------------------------------------------------------------
BottomInit ==
  \E viewport \in {Vec(800, 600), Vec(800, 143)}, w \in AutoWidths :
    StartsAs(Mount(<<"SW", "SE">>, 15, FALSE, viewport, ZERO, w))

BottomSpec == BottomInit /\ [][GeoNext]_vars

\* ---- a slow release between two anchors -------------------------------------
\* clientX, clientY of the pointer events: 499 and 500 to the right of the first
SlowPoints == {Px(100, 100), Px(599, 100), Px(600, 100)}

\* anchors "NW NE", margin 15, a box pinned to 100x100, viewport 1000x800
SlowInit ==
  \E w \in AutoWidths :
    StartsAs(Mount(<<"NW", "NE">>, 15, FALSE, Vec(1000, 800), Vec(100, 100), w))

SlowNext ==
  \/ \E e \in SlowPoints : MouseDownWindow(e)
  \/ \E e \in SlowPoints : MouseMove(e)
  \/ MouseUp
  \/ AnimFrame

SlowSpec == SlowInit /\ [][SlowNext]_vars /\ WF_vars(AnimFrame)

\* ---- the exported anchor functions called on their own ----------------------
\* the variables of the mounted controller, which a call leaves alone
controllerVars ==
  <<phase, anchorsArray, margin, resize, vp, cssSize, styleSize, stylePos,
    cursor, lastWindowWidthPercentage, isResizing, resizeStartMouse,
    windowStartSize, targetPos, currentPos, currentAnchor, isDragging,
    lastMouse, lastMove, rafPending, docMouseMove, docMouseUp,
    elMouseDown, resizerMouseDown, winResize, frames, tick, events>>

\* the window the functions are called beside: the miniplayer, mounted
MountedMiniplayer == Mount(<<"SW", "NW", "NE", "SE">>, 15, TRUE, Vec(800, 600), ZERO, 300)

\* most anchors of a candidate list
MaxCandidates == 3

AnchorNames == Range(CanonicalAnchors)

\* the lists of up to n different anchors, in every order
RECURSIVE AnchorLists(_)
AnchorLists(n) ==
  IF n = 0 THEN {<<>>}
  ELSE LET shorter == AnchorLists(n - 1)
       IN shorter \cup UNION {{Append(l, a) : a \in AnchorNames \ Range(l)} : l \in shorter}

CandidateLists == AnchorLists(MaxCandidates) \ {<<>>}

\* margin, element.offsetWidth/Height and window.innerWidth/Height of a call
FnGeometries ==
  {[margin |-> 15, el |-> Vec(200, 113), vp |-> Vec(800, 600)],
   [margin |-> 0, el |-> Vec(100, 100), vp |-> Vec(1000, 800)]}

FnPositions ==
  {Px(50, 0), Px(20, 15), Px(300, 250), Px(515, 15), Px(560, 100), Px(0, 400)}

\* unit vectors (length UNIT)
FnDirections == {Vec(1000, 0), Vec(600, 800), Vec(-707, 707), Vec(0, -1000)}

ByAngleCalls ==
  {[fn |-> "closestAnchorVec2ByAngle", position |-> p, direction |-> d,
    anchorsArray |-> l, margin |-> g.margin, el |-> g.el, vp |-> g.vp] :
     p \in FnPositions, d \in FnDirections, l \in CandidateLists, g \in FnGeometries}

ByDistanceCalls ==
  {[fn |-> "closestAnchorVec2ByDistance", position |-> p,
    anchorsArray |-> l, margin |-> g.margin, el |-> g.el, vp |-> g.vp] :
     p \in FnPositions, l \in CandidateLists, g \in FnGeometries}

\* a viewport with exactly two margins of room across: NE, N and NW coincide
TightGeometry == [margin |-> 15, el |-> Vec(200, 113), vp |-> Vec(230, 600)]

\* positions halfway between NW and N, and between N and S (and W and E),
\* of the window 200x113 in the viewport 800x600 with margin 15
HalfwayPositions == {Vec(6300, 600), Vec(12000, 9740)}

Vec2ToAnchorCalls ==
  {[fn |-> "vec2ToAnchor", position |-> p, margin |-> g.margin, el |-> g.el, vp |-> g.vp] :
     p \in FnPositions \cup HalfwayPositions, g \in FnGeometries \cup {TightGeometry}}

TableGeometries ==
  {[margin |-> m, el |-> e, vp |-> v] :
     m \in {0, 15, 20},
     e \in {Vec(200, 113), Vec(100, 100), Vec(301, 169)},
     v \in {Vec(800, 600), Vec(1000, 800), Vec(230, 600), Vec(801, 601)}}

AnchorToVec2Calls ==
  {[fn |-> f, anchor |-> a, margin |-> g.margin, el |-> g.el, vp |-> g.vp] :
     f \in {"anchorToVec2", "anchorToVec2Inline"}, a \in AnchorNames, g \in TableGeometries}

AnchorFnInit ==
  \/ \E a \in ByAngleCalls : StartsWith(MountedMiniplayer, a)
  \/ \E a \in ByDistanceCalls : StartsWith(MountedMiniplayer, a)
  \/ \E a \in Vec2ToAnchorCalls : StartsWith(MountedMiniplayer, a)
  \/ \E a \in AnchorToVec2Calls : StartsWith(MountedMiniplayer, a)

CallClosestByAngle ==
  /\ args.fn = "closestAnchorVec2ByAngle"
  /\ result = NoResult
  /\ result' = <<closestAnchorVec2ByAngle(args.position, args.direction, args.anchorsArray,
                                           args.margin, args.el, args.vp)>>
  /\ UNCHANGED <<controllerVars, args>>

CallClosestByDistance ==
  /\ args.fn = "closestAnchorVec2ByDistance"
  /\ result = NoResult
  /\ result' = <<closestAnchorVec2ByDistance(args.position, args.anchorsArray,
                                              args.margin, args.el, args.vp)>>
  /\ UNCHANGED <<controllerVars, args>>

CallVec2ToAnchor ==
  /\ args.fn = "vec2ToAnchor"
  /\ result = NoResult
  /\ result' = <<vec2ToAnchor(args.position, args.margin, args.el, args.vp)>>
  /\ UNCHANGED <<controllerVars, args>>

CallAnchorToVec2 ==
  /\ args.fn = "anchorToVec2"
  /\ result = NoResult
  /\ result' = <<anchorToVec2(args.anchor, args.margin, args.el, args.vp)>>
  /\ UNCHANGED <<controllerVars, args>>

CallAnchorToVec2Inline ==
  /\ args.fn = "anchorToVec2Inline"
  /\ result = NoResult
  /\ result' = <<anchorToVec2Inline(args.anchor, args.margin, args.el, args.vp)>>
  /\ UNCHANGED <<controllerVars, args>>

AnchorFnNext ==
  \/ CallAnchorToVec2
  \/ CallAnchorToVec2Inline
  \/ CallClosestByAngle
  \/ CallClosestByDistance
  \/ CallVec2ToAnchor

AnchorFnSpec == AnchorFnInit /\ [][AnchorFnNext]_vars

\* ---- anchor strings outside the eight names ------------------------------
\* anchors.split(" ") of "XX", of the empty string, of "nw SE" and of
\* "SW  NE" (two spaces)
MalformedConfigs == {<<"XX">>, <<"">>, <<"nw", "SE">>, <<"SW", "", "NE">>}

MalformedNames == {"", "XX", "nw", "NorthWest"}

MalformedCalls ==
  {[fn |-> "anchorToVec2", anchor |-> a, margin |-> g.margin, el |-> g.el, vp |-> g.vp] :
     a \in MalformedNames, g \in TableGeometries}

\* a mounted window that receives no more events
Quiet(s) == [s EXCEPT !.events = MaxEvents]

MalformedInit ==
  \/ \E anchors \in MalformedConfigs, m \in Margins, rs \in BOOLEAN,
        viewport \in MountViewports, w \in AutoWidths :
       StartsAs(Mount(anchors, m, rs, viewport, ZERO, w))
  \/ \E a \in MalformedCalls : StartsWith(Quiet(MountedMiniplayer), a)

MalformedNext ==
  \/ \E e \in TwoPoints : MouseDownWindow(e)
  \/ \E e \in TwoPoints : MouseDownResizer(e)
  \/ \E e \in TwoPoints : MouseMove(e)
  \/ MouseUp
  \/ \E v \in Viewports : BrowserResize(v)
  \/ Unmount
  \/ BoundedFrame
  \/ CallAnchorToVec2

MalformedSpec == MalformedInit /\ [][MalformedNext]_vars

\* ---- the exported resize functions called on their own ---------------------
\* the values of style.cursor that setResizerPos assigns
ActiveCursors ==
  {"nw-resize", "n-resize", "ne-resize", "w-resize", "e-resize",
   "sw-resize", "s-resize", "se-resize"}

\* style.cursor of a handle that setResizerPos has not given one, or that
\* carries another value
OtherCursors == {"", "pointer"}

\* window.innerWidth of the calls
FnViewportWidths == {300, 401, 800, 1000}

\* getWindowSize(windowElement) at the start of a resize: whole pixels, the
\* height rounded from width / (16 / 9), or pinned by a stylesheet
FnStartSizes == {Px(200, 113), Px(300, 169), Px(400, 225), Px(500, 281), Px(300, 300)}

\* clientX, clientY of a mousemove minus those of the mousedown
FnDeltaSteps == {-1000, -301, -100, 0, 100, 301, 1000}

FnDeltas == {Px(dx, dy) : dx \in FnDeltaSteps, dy \in FnDeltaSteps}

GetDeltaWindowSizeCalls ==
  {[fn |-> "getDeltaWindowSize", cursor |-> c, windowStartSize |-> size, delta |-> delta,
    minWidth |-> WINDOW_MIN_WIDTH * SCALE, maxWidth |-> (w * SCALE) \div 2,
    aspectRatio |-> ASPECT_RATIO] :
     c \in ActiveCursors \cup OtherCursors, size \in FnStartSizes,
     delta \in FnDeltas, w \in FnViewportWidths}

\* innerWidth / 5 at mount, innerWidth * lastWindowWidthPercentage on a
\* viewport resize, and widths far outside the range
FnWidths ==
  {(w * SCALE) \div 5 : w \in FnViewportWidths} \cup
  {(w * SCALE * 200) \div 800 : w \in FnViewportWidths} \cup
  {-1000 * SCALE, 0, 100000 * SCALE}

WidthToWindowSizeCalls ==
  {[fn |-> "widthToWindowSize", newWidth |-> nw,
    minWidth |-> WINDOW_MIN_WIDTH * SCALE, maxWidth |-> (w * SCALE) \div 2,
    aspectRatio |-> ASPECT_RATIO] :
     nw \in FnWidths, w \in FnViewportWidths}

\* the handle's style.cursor before the call: unset, or left by an earlier call
SetResizerPosCalls ==
  {[fn |-> "setResizerPos", anchor |-> a, cursor |-> c] :
     a \in AnchorNames \cup MalformedNames, c \in {"", "se-resize"}}

ResizeFnInit ==
  \/ \E a \in SetResizerPosCalls : StartsWith(MountedMiniplayer, a)
  \/ \E a \in GetDeltaWindowSizeCalls : StartsWith(MountedMiniplayer, a)
  \/ \E a \in WidthToWindowSizeCalls : StartsWith(MountedMiniplayer, a)

CallGetDeltaWindowSize ==
  /\ args.fn = "getDeltaWindowSize"
  /\ result = NoResult
  /\ result' = <<getDeltaWindowSize(args.cursor, args.windowStartSize, args.delta,
                                     args.minWidth, args.maxWidth, args.aspectRatio)>>
  /\ UNCHANGED <<controllerVars, args>>

CallWidthToWindowSize ==
  /\ args.fn = "widthToWindowSize"
  /\ result = NoResult
  /\ result' = <<widthToWindowSize(args.newWidth, args.minWidth, args.maxWidth,
                                    args.aspectRatio)>>
  /\ UNCHANGED <<controllerVars, args>>

\* the result is the style of the handle after the call
CallSetResizerPos ==
  /\ args.fn = "setResizerPos"
  /\ result = NoResult
  /\ result' = <<[placement |-> setResizerPosPlacement(args.anchor),
                  cursor |-> setResizerPos(args.cursor, args.anchor)]>>
  /\ UNCHANGED <<controllerVars, args>>

ResizeFnNext ==
  \/ CallSetResizerPos
  \/ CallGetDeltaWindowSize
  \/ CallWidthToWindowSize

ResizeFnSpec == ResizeFnInit /\ [][ResizeFnNext]_vars

\* ---- Vector2.lerp on its own ---------------------------------------------
\* the doubles 0.1, 0.7, 15, 472.5 and -0.3
LerpNumbers ==
  {Num(FALSE, 25, 10066329, 10066330), Num(FALSE, 179, 3355443, 3355440),
   Num(FALSE, 3840, 0, 0), Num(FALSE, 120960, 0, 0),
   Num(TRUE, 76, 13421772, 13421772)}

LerpFactors == {0, 1}

LerpCalls ==
  {[fn |-> "lerp", a |-> Vec(ax, ay), b |-> Vec(bx, by), t |-> t] :
     ax \in LerpNumbers, ay \in LerpNumbers, bx \in LerpNumbers,
     by \in LerpNumbers, t \in LerpFactors}

LerpInit == \E a \in LerpCalls : StartsWith(MountedMiniplayer, a)

CallLerp ==
  /\ args.fn = "lerp"
  /\ result = NoResult
  /\ result' = <<lerpNumber(args.a, args.b, args.t)>>
  /\ UNCHANGED <<controllerVars, args>>

LerpNext == CallLerp

LerpSpec == LerpInit /\ [][LerpNext]_vars

\* ---- normalize and angleTo on their own, closestByAngle at a candidate ----
FnVectors == {ZERO, Px(3, 0), Px(0, -4), Px(3, 4), Vec(-707, 707), Vec(1, 0)}

NormalizeCalls == {[fn |-> "normalize", v |-> v] : v \in FnVectors}

AngleToCalls == {[fn |-> "angleTo", a |-> a, b |-> b] : a \in FnVectors, b \in FnVectors}

\* calls of closestAnchorVec2ByAngle from the position of one of the candidates
AtCandidateCalls ==
  {[fn |-> "closestAnchorVec2ByAngle",
    position |-> anchorToVec2(c, 15, Vec(200, 113), Vec(800, 600)),
    direction |-> d, anchorsArray |-> l,
    margin |-> 15, el |-> Vec(200, 113), vp |-> Vec(800, 600)] :
     c \in AnchorNames, d \in FnDirections \cup {ZERO}, l \in CandidateLists}

VectorFnInit ==
  \/ \E a \in NormalizeCalls : StartsWith(MountedMiniplayer, a)
  \/ \E a \in AngleToCalls : StartsWith(MountedMiniplayer, a)
  \/ \E a \in AtCandidateCalls : StartsWith(MountedMiniplayer, a)

CallNormalize ==
  /\ args.fn = "normalize"
  /\ result = NoResult
  /\ result' = <<normalize(args.v)>>
  /\ UNCHANGED <<controllerVars, args>>

CallAngleTo ==
  /\ args.fn = "angleTo"
  /\ result = NoResult
  /\ result' = <<angleTo(args.a, args.b)>>
  /\ UNCHANGED <<controllerVars, args>>

VectorFnNext ==
  \/ CallNormalize
  \/ CallAngleTo
  \/ CallClosestByAngle

VectorFnSpec == VectorFnInit /\ [][VectorFnNext]_vars

\* ------------------------------------------------------------------------
\* Properties
\* ------------------------------------------------------------------------
Count(listeners, h) == Cardinality({i \in 1..Len(listeners) : listeners[i] = h})

AtRest == ~isDragging /\ rafPending = 0

\* C1: whenever the mounted window is not being dragged and no animation
\* frame is pending, currentPos is the position of currentAnchor for the
\* current viewport, element size and margin.
C1_RestsAtAnchor ==
  (phase = "mounted" /\ AtRest) => currentPos = anchorPos(St, currentAnchor)

\* C2: dragging and resizing are mutually exclusive: isDragging and
\* isResizing are never both true, whatever the order of pointer events.
C2_DragResizeExclusive == ~(isDragging /\ isResizing)

\* C3: while mounted, the document-level drag listeners are registered exactly
\* when isDragging holds and the document-level resize listeners exactly when
\* isResizing holds, each exactly once.
C3_ListenersFollowState ==
  phase = "mounted" =>
    /\ Count(docMouseMove, "dragMove") = (IF isDragging THEN 1 ELSE 0)
    /\ Count(docMouseUp, "dragEnd") = (IF isDragging THEN 1 ELSE 0)
    /\ Count(docMouseMove, "resizerMove") = (IF isResizing THEN 1 ELSE 0)
    /\ Count(docMouseUp, "resizerEnd") = (IF isResizing THEN 1 ELSE 0)

\* a drag and a resize are both in progress (two mousedowns without a mouseup
\* in between) and all four document-level listeners are registered
C3_Witness ==
  /\ phase = "mounted"
  /\ isDragging /\ isResizing
  /\ Len(docMouseMove) = 2 /\ Len(docMouseUp) = 2

\* C4: after unmount no listener of this instance is left on the window body,
\* the resize handle, the document or the viewport.
C4_UnmountDetachesAll ==
  phase = "unmounted" =>
    /\ elMouseDown = <<>>
    /\ resizerMouseDown = <<>>
    /\ winResize = <<>>
    /\ docMouseMove = <<>>
    /\ docMouseUp = <<>>

\* the step is a drag-end: only dragEnd clears isDragging
DragEndStep == isDragging /\ ~isDragging'

\* magnitude(v) > ANCHOR_SNAP_SPEED_THRESHOLD
ExceedsThreshold(v) ==
  Less(Square(ANCHOR_SNAP_SPEED_THRESHOLD * SCALE), sqrMagnitude(v))

\* C8: at drag-end, if the magnitude of the last drag-move delta is strictly
\* greater than the threshold, targetPos becomes closestByAngle(currentPos,
\* normalized delta, configured anchors); otherwise (also when the drag had no
\* drag-move) it becomes closestByDistance(targetPos, configured anchors).
C8_DragEndSelection ==
  [][DragEndStep =>
       targetPos' =
         IF ExceedsThreshold(lastMove)
           THEN closestAnchorVec2ByAngle(currentPos, normalize(lastMove), anchorsArray,
                                         margin, offsetSize(St), vp)
           ELSE closestAnchorVec2ByDistance(targetPos, anchorsArray,
                                            margin, offsetSize(St), vp)]_vars

\* a drag has just ended whose last delta was exactly at the threshold (one
\* pixel), and the nearest configured anchor was chosen although the anchor in
\* the direction of the delta is another one
C8_Witness ==
  /\ ~isDragging /\ rafPending > 0 /\ frames = 0
  /\ lastMove = Px(1, 0)
  /\ targetPos = anchorPos(St, currentAnchor)
  /\ targetPos # closestAnchorVec2ByAngle(currentPos, normalize(lastMove), anchorsArray,
                                          margin, offsetSize(St), vp)

\* the angle between the direction (1, 0) and the direction from `from` to `to`
AngleToRight(from, to) == angleTo(Vec(UNIT, 0), subtract(to, from))

\* the smallest such angle over the configured anchors
MinAngleToRight(from) ==
  LET angles == {AngleToRight(from, anchorPos(St, anchorsArray[i])) : i \in 1..Len(anchorsArray)}
  IN CHOOSE a \in angles : \A b \in angles : a <= b

\* the step is a drag-end with a delta above the threshold pointing along (1, 0)
FlickRightStep ==
  DragEndStep /\ lastMove.y = 0 /\ lastMove.x > 0 /\ ExceedsThreshold(lastMove)

TWO_TIES == 2 * ANGLE_TIE

C5_LoopStopsAfterUnmount == (phase = "unmounted") ~> (rafPending = 0)

WithinEpsilon(a, b) == LessEq(sqrDistance(a, b), Square(SNAP_EPSILON * SCALE))

Idle == ~isDragging /\ rafPending = 0 /\ WithinEpsilon(currentPos, targetPos)

\* the callbacks of the frame that request another frame: the j-th does when
\* isDragging holds or the position it leaves is more than 1 from targetPos
Rescheduled ==
  {j \in 1..rafPending :
     \/ isDragging
     \/ ~WithinEpsilon(RunCallbacks([St EXCEPT !.rafPending = 0], j).currentPos,
                       targetPos)}

\* a step of the animation loop: every other step delivers an event
FrameStep == events' = events

\* C6: each tick of the loop requests another frame exactly when isDragging is
\* true or distance(currentPos, targetPos) > 1, and a loop running with no drag
\* in progress reaches Idle (no frame pending, distance <= 1) unless a new
\* drag starts.
C6_LoopTerminates ==
  /\ [][FrameStep => rafPending' = Cardinality(Rescheduled)]_vars
  /\ (~isDragging /\ rafPending > 0) ~> (isDragging \/ Idle)

\* the window has come to rest after a drag-end, within the epsilon of the
\* target without being exactly on it
C6_Witness ==
  /\ phase = "mounted"
  /\ Idle
  /\ events > 0
  /\ currentPos # targetPos
  /\ lastMove # ZERO

\* ------------------------------------------------------------------------
\* The anchor round trip
\* ------------------------------------------------------------------------
\* the eight anchor positions are pairwise distinct: in neither axis is the
\* room around the element exactly two margins
NonDegenerate(m, el, viewport) ==
  /\ viewport.x # el.x + 2 * m
  /\ viewport.y # el.y + 2 * m

\* C7: for every one of the eight canonical anchors a and every non-degenerate
\* margin, element size and viewport size, vec2ToAnchor(anchorToVec2(a)) = a.
C7_RoundTrip ==
  NonDegenerate(margin, offsetSize(St), vp) =>
    \A i \in 1..Len(CanonicalAnchors) :
      vec2ToAnchor(anchorToVec2(CanonicalAnchors[i], margin, offsetSize(St), vp),
                   margin, offsetSize(St), vp) = CanonicalAnchors[i]

\* a drag-end in a non-degenerate geometry has taken the window to another
\* anchor, the one vec2ToAnchor names for the position anchorToVec2 gave
C7_Witness ==
  /\ NonDegenerate(margin, offsetSize(St), vp)
  /\ ~isDragging /\ lastMove # ZERO
  /\ currentAnchor # anchorsArray[1]
  /\ targetPos = anchorPos(St, currentAnchor)

\* ------------------------------------------------------------------------
\* A slow release, end to end
\* ------------------------------------------------------------------------
\* C10: with anchors NW NE, margin 15, element 100x100 and viewport 1000x800
\* the window starts at the NW position (15,15); a drag-end that follows
\* drag-moves totalling (+500, 0) from there, the last one not above the
\* threshold, makes targetPos the NE position (885,15) and currentAnchor NE,
\* and the window then comes to rest within 1 of that targetPos unless a new
\* drag starts.
C10_SlowReleaseSnapsToNE ==
  /\ [](events = 0 =>
         currentAnchor = "NW" /\ currentPos = Px(15, 15) /\ targetPos = Px(15, 15))
  /\ [][(/\ DragEndStep
          /\ currentAnchor = "NW"
          /\ targetPos = add(Px(15, 15), Px(500, 0))
          /\ ~ExceedsThreshold(lastMove))
         => (targetPos' = Px(885, 15) /\ currentAnchor' = "NE")]_vars
  /\ (~isDragging /\ currentAnchor = "NE" /\ rafPending > 0)
       ~> (isDragging \/ (Idle /\ targetPos = Px(885, 15)))

\* the window rests at NE after a drag whose last move was the one pixel from
\* 599 to 600 and that ended at (+500, 0) from NW
C10_Witness ==
  /\ Idle
  /\ currentAnchor = "NE"
  /\ targetPos = Px(885, 15)
  /\ lastMouse = Px(600, 100) /\ lastMove = Px(1, 0)
  /\ frames = MaxFrames

\* ------------------------------------------------------------------------
\* The anchor functions
\* ------------------------------------------------------------------------
Returned(fn) == args.fn = fn /\ result # NoResult

Value == result[1]

\* the position of candidate i of the call, its angle to the direction seen
\* from the position, and its squared distance from the position
CandidateVec2(i) == anchorToVec2(args.anchorsArray[i], args.margin, args.el, args.vp)

CandidateAngle(v) == angleTo(args.direction, subtract(v, args.position))

CandidateSqrDist(v) == sqrDistance(args.position, v)

\* C11: closestByAngle returns, for every non-empty candidate list in any
\* order, a candidate position of minimal angle between direction and
\* (candidate - pos), where of candidates whose angles differ by less than
\* 0.1 rad the one nearer to pos is returned: no candidate's angle is smaller
\* by 0.1 rad or more, and no candidate within 0.1 rad of the returned one is
\* nearer.
C11_ClosestByAngle ==
  Returned("closestAnchorVec2ByAngle") =>
    /\ \E i \in 1..Len(args.anchorsArray) : Value = CandidateVec2(i)
    /\ \A i \in 1..Len(args.anchorsArray) :
         /\ CandidateAngle(Value) < CandidateAngle(CandidateVec2(i)) + ANGLE_TIE
         /\ Abs(CandidateAngle(CandidateVec2(i)) - CandidateAngle(Value)) < ANGLE_TIE
              => LessEq(CandidateSqrDist(Value), CandidateSqrDist(CandidateVec2(i)))

\* C12: closestByDistance returns the position of a candidate whose distance
\* to pos is minimal among the candidates (anchors that are not candidates
\* play no part), and of candidates at that distance the earliest listed.
C12_ClosestByDistance ==
  Returned("closestAnchorVec2ByDistance") =>
    \E i \in 1..Len(args.anchorsArray) :
      /\ Value = CandidateVec2(i)
      /\ \A j \in 1..Len(args.anchorsArray) :
           /\ LessEq(CandidateSqrDist(CandidateVec2(i)), CandidateSqrDist(CandidateVec2(j)))
           /\ j < i => CandidateSqrDist(CandidateVec2(j)) # CandidateSqrDist(CandidateVec2(i))

\* a call has returned the earlier of two candidates at the same, minimal
\* distance, while an anchor that is not a candidate is nearer to pos
C12_Witness ==
  /\ Returned("closestAnchorVec2ByDistance")
  /\ \E i, j \in 1..Len(args.anchorsArray) :
       /\ i < j
       /\ Value = CandidateVec2(i)
       /\ CandidateVec2(j) # Value
       /\ CandidateSqrDist(CandidateVec2(j)) = CandidateSqrDist(Value)
  /\ \E a \in AnchorNames \ Range(args.anchorsArray) :
       Less(CandidateSqrDist(anchorToVec2(a, args.margin, args.el, args.vp)),
            CandidateSqrDist(Value))

\* squared distance from the call's position to canonical anchor i
CanonicalSqrDist(i) ==
  CandidateSqrDist(anchorToVec2(CanonicalAnchors[i], args.margin, args.el, args.vp))

\* C13: positionToAnchor(pos) returns, of all eight canonical anchors, one of
\* minimal distance to pos, and of the anchors at that distance the first in
\* the order NE, N, NW, W, E, SW, S, SE.
C13_Vec2ToAnchor ==
  Returned("vec2ToAnchor") =>
    /\ CanonicalAnchors = <<"NE", "N", "NW", "W", "E", "SW", "S", "SE">>
    /\ \E i \in 1..8 :
         /\ Value = CanonicalAnchors[i]
         /\ \A j \in 1..8 :
              /\ LessEq(CanonicalSqrDist(i), CanonicalSqrDist(j))
              /\ j < i => CanonicalSqrDist(j) # CanonicalSqrDist(i)

\* a call has returned the earlier of two anchors at different places that
\* are both at the minimal distance
C13_Witness ==
  /\ Returned("vec2ToAnchor")
  /\ \E i, j \in 1..8 :
       /\ i < j
       /\ Value = CanonicalAnchors[i]
       /\ CanonicalSqrDist(j) = CanonicalSqrDist(i)
       /\ anchorToVec2(CanonicalAnchors[j], args.margin, args.el, args.vp)
            # anchorToVec2(CanonicalAnchors[i], args.margin, args.el, args.vp)

\* the placement table, in sub-pixels
TableX(anchor, m, el, viewport) ==
  IF anchor \in {"NW", "W", "SW"} THEN m * SCALE
  ELSE IF anchor \in {"N", "S"} THEN (viewport.x * SCALE - el.x * SCALE) \div 2
  ELSE (viewport.x - el.x - m) * SCALE

TableY(anchor, m, el, viewport) ==
  IF anchor \in {"NW", "N", "NE"} THEN m * SCALE
  ELSE IF anchor \in {"W", "E"} THEN (viewport.y * SCALE - el.y * SCALE) \div 2
  ELSE (viewport.y - el.y - m) * SCALE

\* C14: anchorToPosition follows the placement table for every anchor,
\* margin, element size and viewport size, in the exported function and in
\* the earlier inline one.
C14_PlacementTable ==
  (Returned("anchorToVec2") \/ Returned("anchorToVec2Inline")) =>
    /\ Value.x = TableX(args.anchor, args.margin, args.el, args.vp)
    /\ Value.y = TableY(args.anchor, args.margin, args.el, args.vp)

\* the exported anchorToVec2 of anchors.ts alone follows the table
ExportedFollowsTable ==
  Returned("anchorToVec2") =>
    /\ Value.x = TableX(args.anchor, args.margin, args.el, args.vp)
    /\ Value.y = TableY(args.anchor, args.margin, args.el, args.vp)

\* (margin, margin), the NW placement
MarginCorner(m) == Vec(m * SCALE, m * SCALE)

\* the placement of a configured anchor string: the table's for the eight
\* names, the NW placement for any other string
Placement(anchor) ==
  IF anchor \in AnchorNames
    THEN Vec(TableX(anchor, margin, offsetSize(St), vp), TableY(anchor, margin, offsetSize(St), vp))
    ELSE MarginCorner(margin)

\* C15: an unrecognized or malformed anchor string never fails:
\* anchorToPosition maps it to (margin, margin), and a window configured with
\* such a string mounts and operates: while its current anchor is such a
\* string it rests at (margin, margin), through viewport and handle resizes
\* too, and every drag-end selects the placement of a configured string and
\* names a canonical anchor.
C15_MalformedAnchor ==
  /\ []((Returned("anchorToVec2") /\ args.anchor \notin AnchorNames) =>
          Value = MarginCorner(args.margin))
  /\ []((phase = "mounted" /\ AtRest /\ currentAnchor \notin AnchorNames) =>
          /\ stylePos = MarginCorner(margin)
          /\ currentPos = MarginCorner(margin)
          /\ targetPos = MarginCorner(margin))
  /\ [][DragEndStep =>
          /\ \E i \in 1..Len(anchorsArray) : targetPos' = Placement(anchorsArray[i])
          /\ currentAnchor' \in AnchorNames]_vars

\* a window configured with "nw SE" was dragged and released near its first
\* placement: it targets (margin, margin) and its current anchor is now NW
C15_Witness ==
  /\ phase = "mounted" /\ anchorsArray = <<"nw", "SE">>
  /\ ~isDragging /\ events >= 2 /\ docMouseUp = <<>>
  /\ targetPos = MarginCorner(margin)
  /\ currentAnchor = "NW"

\* C16: resizedSize returns a width within [minWidth, maxWidth] for every
\* active cursor direction, start size and drag delta, for every
\* minWidth/maxWidth pair the controller passes (200, innerWidth / 2).
C16_WidthWithinRange ==
  (Returned("getDeltaWindowSize") /\ args.cursor \in ActiveCursors) =>
    (args.minWidth <= Value.x /\ Value.x <= args.maxWidth)

\* the same when the range is not empty
WidthWithinNonEmptyRange ==
  (Returned("getDeltaWindowSize") /\ args.cursor \in ActiveCursors
     /\ args.minWidth <= args.maxWidth) =>
    (args.minWidth <= Value.x /\ Value.x <= args.maxWidth)

\* how far the pointer has moved in the direction in which the handle of
\* this cursor grows the window
Growth(c, delta) ==
  CASE c \in {"e-resize", "ne-resize", "se-resize"} -> 0 - delta.x
    [] c \in {"w-resize", "nw-resize", "sw-resize"} -> delta.x
    [] c = "n-resize" -> delta.y
    [] c = "s-resize" -> 0 - delta.y

\* size.y is size.x / aspectRatio, to the half sub-pixel of the model's numbers
AspectLocked(size, aspectRatio) ==
  Abs(size.y * aspectRatio[1] - size.x * aspectRatio[2]) * 2 <= aspectRatio[1]

\* C17: when the handle is dragged in the growing direction by more than
\* maxWidth - minWidth, from any start width within [minWidth, maxWidth] and
\* for every handle direction, the width is exactly maxWidth and the height
\* maxWidth / aspectRatio.
C17_ClampsToMaxWidth ==
  (/\ Returned("getDeltaWindowSize")
   /\ args.cursor \in ActiveCursors
   /\ args.minWidth <= args.windowStartSize.x
   /\ args.windowStartSize.x <= args.maxWidth
   /\ Growth(args.cursor, args.delta) > args.maxWidth - args.minWidth) =>
    /\ Value.x = args.maxWidth
    /\ AspectLocked(Vec(args.maxWidth, Value.y), args.aspectRatio)

\* the handle of a window anchored at the bottom was dragged 301 px straight
\* up from the smallest width in a 1000 px viewport: the width is 500
C17_Witness ==
  /\ Returned("getDeltaWindowSize")
  /\ args.cursor = "s-resize"
  /\ args.windowStartSize = Px(200, 113)
  /\ args.delta = Px(0, -301)
  /\ args.maxWidth = 500 * SCALE
  /\ Value = Vec(500 * SCALE, 11250)

\* C18: resizing is always aspect-locked: for every cursor value the handle
\* can carry (an unset or unrecognized one too), every start size and every
\* delta, the size returned by resizedSize has height = width / aspectRatio,
\* and so has the size returned by widthFromTarget.
C18_AspectLocked ==
  (Returned("getDeltaWindowSize") \/ Returned("widthToWindowSize")) =>
    AspectLocked(Value, args.aspectRatio)

\* the same for the cursors that setResizerPos assigns
AspectLockedForActiveCursors ==
  ((Returned("getDeltaWindowSize") /\ args.cursor \in ActiveCursors)
     \/ Returned("widthToWindowSize")) =>
    AspectLocked(Value, args.aspectRatio)

\* the width before clamping, as the claim gives it for each cursor direction
PreClampWidth(c, start, delta) ==
  IF c \in {"e-resize", "ne-resize", "se-resize"} THEN start.x - delta.x
  ELSE IF c \in {"w-resize", "nw-resize", "sw-resize"} THEN start.x + delta.x
  ELSE IF c = "n-resize" THEN start.x + delta.y
  ELSE start.x - delta.y

\* C19: before clamping, resizedSize computes the width as startWidth - deltaX
\* for the e/ne/se cursor directions, startWidth + deltaX for w/nw/sw,
\* startWidth + deltaY for n and startWidth - deltaY for s: the returned width
\* is that width clamped, and that width itself when it is within the range.
C19_PreClampWidth ==
  (Returned("getDeltaWindowSize") /\ args.cursor \in ActiveCursors) =>
    LET w == PreClampWidth(args.cursor, args.windowStartSize, args.delta)
    IN /\ Value.x = Max2(args.minWidth, Min2(args.maxWidth, w))
       /\ (args.minWidth <= w /\ w <= args.maxWidth) => Value.x = w

\* the n handle dragged 100 px down and 100 px to the left from a width of
\* 300 in a 1000 px viewport: the width is 400
C19_Witness ==
  /\ Returned("getDeltaWindowSize")
  /\ args.cursor = "n-resize"
  /\ args.windowStartSize = Px(300, 169)
  /\ args.delta = Px(-100, 100)
  /\ args.maxWidth = 500 * SCALE
  /\ Value.x = 400 * SCALE

\* the row and the column of the window's box at which an anchor holds it
AnchorRow(anchor) ==
  IF anchor \in {"NW", "N", "NE"} THEN "top"
  ELSE IF anchor \in {"SW", "S", "SE"} THEN "bottom" ELSE "middle"

AnchorColumn(anchor) ==
  IF anchor \in {"NW", "W", "SW"} THEN "left"
  ELSE IF anchor \in {"NE", "E", "SE"} THEN "right" ELSE "center"

\* the row and the column of the window's box at which a style places the handle
HandleRow(style) ==
  IF style.top = "0" /\ style.bottom = "auto" THEN "top"
  ELSE IF style.top = "auto" /\ style.bottom = "0" THEN "bottom"
  ELSE IF style.top = "50%" /\ style.bottom = "auto" THEN "middle" ELSE "none"

HandleColumn(style) ==
  IF style.left = "0" /\ style.right = "auto" THEN "left"
  ELSE IF style.left = "auto" /\ style.right = "0" THEN "right"
  ELSE IF style.left = "50%" /\ style.right = "auto" THEN "center" ELSE "none"

Opposite(side) ==
  CASE side = "top" -> "bottom"
    [] side = "bottom" -> "top"
    [] side = "left" -> "right"
    [] side = "right" -> "left"
    [] OTHER -> side

\* the pointer has not moved toward the anchored side or corner in either axis
Away(anchor, delta) ==
  /\ AnchorColumn(anchor) = "left" => delta.x >= 0
  /\ AnchorColumn(anchor) = "right" => delta.x <= 0
  /\ AnchorRow(anchor) = "top" => delta.y >= 0
  /\ AnchorRow(anchor) = "bottom" => delta.y <= 0

\* the pointer has not moved away from the anchored side or corner in either axis
Toward(anchor, delta) ==
  /\ AnchorColumn(anchor) = "left" => delta.x <= 0
  /\ AnchorColumn(anchor) = "right" => delta.x >= 0
  /\ AnchorRow(anchor) = "top" => delta.y <= 0
  /\ AnchorRow(anchor) = "bottom" => delta.y >= 0

\* the width the window has while the pointer is still on the handle
WidthAtHandle == Max2(args.minWidth, Min2(args.maxWidth, args.windowStartSize.x))

\* C20: for each of the eight anchors the resize handle is placed on the side
\* or corner of the window opposite the anchor, and with the cursor the handle
\* gets for that anchor, moving the pointer from the handle away from the
\* anchored side or corner never decreases the width while moving it toward
\* the anchor never increases it.
C20_GrowsAwayFromAnchor ==
  /\ (Returned("setResizerPos") /\ args.anchor \in AnchorNames) =>
       /\ HandleRow(Value.placement) = Opposite(AnchorRow(args.anchor))
       /\ HandleColumn(Value.placement) = Opposite(AnchorColumn(args.anchor))
  /\ Returned("getDeltaWindowSize") =>
       \A anchor \in AnchorNames :
         setResizerPos("", anchor) = args.cursor =>
           /\ Away(anchor, args.delta) => Value.x >= WidthAtHandle
           /\ Toward(anchor, args.delta) => Value.x <= WidthAtHandle

\* the handle of a window anchored at NE sits at the bottom left corner
C20_Witness ==
  /\ Returned("setResizerPos")
  /\ args.anchor = "NE"
  /\ Value.placement = [top |-> "auto", bottom |-> "0", left |-> "0", right |-> "auto"]
  /\ Value.cursor = "ne-resize"

\* the handle of a window anchored at NE (cursor ne-resize) was moved 100 px
\* to the left and 100 px down, away from the corner: the width grew
GrewAwayFromNE ==
  /\ Returned("getDeltaWindowSize")
  /\ args.cursor = "ne-resize"
  /\ args.delta = Px(-100, 100)
  /\ Value.x > WidthAtHandle

\* a viewport-resize event is delivered to the mounted window
ViewportResizeStep == phase = "mounted" /\ vp' # vp

\* C21: a viewport-resize event while the window is at rest at anchor A sets
\* the window's position on screen to anchorToPosition(A) for the new viewport
\* dimensions (and the element's size after the event) and leaves
\* currentAnchor, isDragging and isResizing unchanged.
C21_ViewportResizeAtRest ==
  [][(ViewportResizeStep /\ AtRest) =>
       /\ stylePos' = Placement(currentAnchor)'
       /\ UNCHANGED <<currentAnchor, isDragging, isResizing>>]_vars

\* a resizable window at rest at SW since its mount, after the viewport grew
\* from 800x600 to 1000x800: it is 375 wide and its top is at 800 - 211 - 15
C21_Witness ==
  /\ phase = "mounted" /\ AtRest /\ resize /\ events = 1
  /\ vp = Vec(1000, 800)
  /\ currentAnchor = "SW"
  /\ offsetSize(St) = Vec(375, 211)
  /\ stylePos = Px(15, 574)

\* C22: if a viewport-resize event arrives while a snap animation is in
\* flight or while dragging, then when the window comes to rest its position
\* is anchorToPosition(currentAnchor) for the new viewport dimensions, within
\* the 1-unit epsilon.  (The viewport grows only by such an event here.)
C22_TracksViewport ==
  (phase = "mounted" /\ vp = GrownViewport /\ AtRest) =>
    WithinEpsilon(stylePos, Placement(currentAnchor))

\* clamp(newViewportWidth * f, minWidth, maxWidth) for the fraction f of the
\* viewport width that the window is wide in this state, in a viewport that
\* is newWidth wide
RescaledWidth(newWidth) ==
  Max2(WINDOW_MIN_WIDTH * SCALE,
       Min2((newWidth * SCALE) \div 2,
            RoundDiv(newWidth * SCALE * offsetSize(St).x, vp.x)))

\* C23: with resizing enabled, a viewport-resize event sets the window width
\* to clamp(newViewportWidth * f, minWidth, maxWidth), f being the fraction
\* windowWidth / viewportWidth the window had immediately before the resize
\* (also when no resize-handle drag has happened since mount), and the height
\* to width / aspectRatio.
C23_ViewportRescale ==
  [][(ViewportResizeStep /\ resize) =>
       /\ styleSize'.x = RescaledWidth(vp'.x)
       /\ AspectLocked(styleSize', ASPECT_RATIO)]_vars

\* a mousemove is delivered during a resize-handle drag
ResizeMoveStep == isResizing /\ \E e \in MousePoints : MouseMove(e)

\* the element is where currentAnchor places a window of its size
Pinned == stylePos = Placement(currentAnchor)

\* C24: during a resize-handle drag the anchored corner or edge stays pinned:
\* after every resize-move the window position is
\* anchorToPosition(currentAnchor) for the new element size, and an animation
\* frame during the drag (no window drag being in progress) leaves a pinned
\* window pinned, also when the handle was grabbed while a snap animation was
\* in flight.
C24_AnchorStaysPinned ==
  /\ [][ResizeMoveStep => Pinned']_vars
  /\ [][(isResizing /\ ~isDragging /\ Pinned /\ FrameStep) => Pinned']_vars

\* no event has been delivered since the mount
JustMounted == phase = "mounted" /\ events = 0

\* C25: on mount the state is seeded from the first configured anchor:
\* currentAnchor is the first element of the configured list, currentPos =
\* targetPos = anchorToPosition(first anchor) for the window's mounted size,
\* isDragging and isResizing are false and no animation frame is pending.
C25_MountSeedsFirstAnchor ==
  JustMounted =>
    /\ currentAnchor = anchorsArray[1]
    /\ currentPos = Placement(anchorsArray[1])
    /\ targetPos = currentPos
    /\ ~isDragging /\ ~isResizing
    /\ rafPending = 0

\* mounted with anchors "SW NW NE SE" and margin 15 in an 800x600 viewport,
\* sized by the effect to 200 x 112.5: the window is at (15, 472)
C25_Witness ==
  /\ JustMounted
  /\ anchorsArray = <<"SW", "NW", "NE", "SE">> /\ margin = 15
  /\ vp = Vec(800, 600) /\ cssSize = ZERO
  /\ styleSize = Vec(200 * SCALE, 4500)
  /\ currentAnchor = "SW"
  /\ currentPos = Px(15, 472) /\ stylePos = Px(15, 472)

\* a mousedown at e on the window body starts a drag
DragStartStep(e) == phase = "mounted" /\ ~isResizing /\ MouseDownWindow(e)

\* a mousemove at e is delivered during a drag of the mounted window
DragMoveStep(e) == phase = "mounted" /\ isDragging /\ MouseMove(e)

\* C26: during a drag the target tracks the pointer 1:1.  A drag-start
\* records the pointer position; every drag-move adds to targetPos exactly the
\* pointer's displacement since the last recorded position and records the
\* new one, and changes neither currentPos nor currentAnchor; an animation
\* frame changes neither targetPos nor the recorded position.  So targetPos
\* minus its value at the drag-start is the pointer position minus the
\* pointer position at the drag-start, however many frames ran in between.
C26_TargetTracksPointer ==
  /\ [][\A e \in MousePoints : DragStartStep(e) => (isDragging' /\ lastMouse' = e)]_vars
  /\ [][\A e \in MousePoints :
          DragMoveStep(e) =>
            /\ subtract(targetPos', targetPos) = subtract(e, lastMouse)
            /\ lastMouse' = e
            /\ UNCHANGED <<currentPos, currentAnchor>>]_vars
  /\ [][FrameStep => UNCHANGED <<targetPos, lastMouse>>]_vars

\* a drag started at (100,100) on a window at SW (15,472); the pointer went
\* to (580,100) and then to (100,240), an animation frame ran in between: the
\* target is at (15,612) and the rendered position is elsewhere
C26_Witness ==
  /\ isDragging /\ events = 3 /\ frames = 1
  /\ currentAnchor = "SW"
  /\ lastMouse = Px(100, 240)
  /\ lastMove = Vec(-480 * SCALE, 140 * SCALE)
  /\ targetPos = Px(15, 612)
  /\ currentPos # targetPos /\ currentPos # Px(15, 472)

\* C27: after every drag-end, currentAnchor is positionToAnchor of the newly
\* chosen target, anchorToPosition(currentAnchor) = targetPos holds in both
\* the flick branch and the slow-release branch, and an animation frame is
\* pending.
C27_DragEndSetsAnchor ==
  [][DragEndStep =>
       /\ currentAnchor' = vec2ToAnchor(targetPos', margin, offsetSize(St), vp)
       /\ Placement(currentAnchor)' = targetPos'
       /\ rafPending' > 0]_vars

\* a window mounted at the first anchor of its list was flicked to the right
\* (last delta 480 px) and released: its anchor is another one, and the target
\* is that anchor's placement
C27_Witness ==
  /\ phase = "mounted" /\ ~isDragging /\ rafPending > 0 /\ frames = 0
  /\ lastMove = Px(480, 0)
  /\ currentAnchor # anchorsArray[1]
  /\ targetPos = Placement(currentAnchor)

\* the last n elements of a sequence, all of it if it is shorter
LastN(seq, n) == SubSeq(seq, Max2(1, Len(seq) - n + 1), Len(seq))

HandleDownStep(e) == ~isDragging /\ MouseDownResizer(e)

\* C29: a pointer-down on the resize handle, delivered to the handle's
\* listener and then to the window body's, enters Resizing and does not
\* enter Dragging: isDragging stays false, neither drag listener is on the
\* document afterwards, and no animation frame is requested
C29_HandleDownEntersResizing ==
  [][\A e \in MousePoints :
       HandleDownStep(e) =>
         /\ isResizing'
         /\ ~isDragging'
         /\ "dragMove" \notin Range(docMouseMove')
         /\ "dragEnd" \notin Range(docMouseUp')
         /\ rafPending' = rafPending]_vars

C29_Witness ==
  /\ phase = "mounted"
  /\ events = 1
  /\ isResizing
  /\ ~isDragging
  /\ elMouseDown = <<"dragStart">>
  /\ docMouseMove = <<"resizerMove">>
  /\ docMouseUp = <<"resizerEnd">>
  /\ rafPending = 0

\* C30: for all vectors a and b, lerp(a, b, 0) = a and lerp(a, b, 1) = b
\* (the call leaves a and b as they were)
C30_LerpEndpoints ==
  Returned("lerp") =>
    /\ args.t = 0 => Value = args.a
    /\ args.t = 1 => Value = args.b

C32_ResizeDisabled ==
  /\ [](~resize => ~isResizing)
  /\ [][~resize => (styleSize' = styleSize /\ offsetSize(St)' = offsetSize(St))]_vars
  /\ [][(~resize /\ ViewportResizeStep /\ ~isDragging /\ rafPending = 0) =>
          stylePos' = Placement(currentAnchor)']_vars

\* a window without resizing after a viewport resize and a pointer-down on its
\* handle area, which has started a drag
C32_Witness ==
  /\ phase = "mounted" /\ ~resize /\ events = 2
  /\ vp = Vec(1000, 800)
  /\ isDragging /\ ~isResizing
  /\ offsetSize(St) = Vec(200, 113)
  /\ stylePos = Px(15, 672)

\* C33: at most one animation-frame callback of updatePosition is pending at
\* any time, under any interleaving of drag-start, drag-end and frame events,
\* so that currentPos advances by one lerp step per frame.
C33_SingleLoop == phase = "mounted" => rafPending <= 1

\* C34: for a window configured with valid, distinct anchor names,
\* currentAnchor is one of the configured anchors in every reachable state.
C34_AnchorIsConfigured ==
  phase = "mounted" => currentAnchor \in Range(anchorsArray)

\* the size resizerMove computes with the cursor of anchor for a pointer at e
SizeForAnchor(anchor, e) ==
  getDeltaWindowSize(setResizerPos("", anchor), windowStartSize,
                     subtract(e, resizeStartMouse), WINDOW_MIN_WIDTH * SCALE,
                     WINDOW_MAX_WIDTH(St), ASPECT_RATIO)

\* C35: the resize handle always corresponds to currentAnchor: in every state
\* after mount its cursor is the one setResizerPos assigns for currentAnchor,
\* one of the eight directions, and every resize-move sets the size that
\* getDeltaWindowSize gives for that cursor, never the start-size fallback.
C35_HandleFollowsAnchor ==
  /\ [](cursor = setResizerPos("", currentAnchor) /\ cursor \in ActiveCursors)
  /\ [][\A e \in MousePoints :
          (isResizing /\ MouseMove(e)) => styleSize' = SizeForAnchor(currentAnchor, e)]_vars

\* the step ends a drag of the mounted window in which the pointer has not
\* moved: the state is as the drag-start has left it
ClickEndStep ==
  /\ phase = "mounted"
  /\ DragEndStep
  /\ lastMove = ZERO
  /\ targetPos = anchorPos(St, currentAnchor)

\* C36: a drag-start immediately followed by a drag-end with no drag-move in
\* between (a click) leaves currentAnchor and the resting position unchanged,
\* whether the window was at rest or still animating when clicked.
C36_ClickKeepsAnchor ==
  [][ClickEndStep => (currentAnchor' = currentAnchor /\ targetPos' = targetPos)]_vars

\* C37: for every non-empty candidate list in every order, the angle to the
\* direction of the candidate closestByAngle returns exceeds the smallest
\* angle of a candidate by less than 0.2 rad, and the returned position is the
\* position of one of the candidates.
C37_WithinTwoTies ==
  Returned("closestAnchorVec2ByAngle") =>
    /\ \E i \in 1..Len(args.anchorsArray) : Value = CandidateVec2(i)
    /\ \A i \in 1..Len(args.anchorsArray) :
         CandidateAngle(Value) < CandidateAngle(CandidateVec2(i)) + TWO_TIES

\* a call has returned a candidate whose angle exceeds the smallest by 0.1 rad
\* or more: a nearer candidate within 0.1 rad of the running minimum
C37_Witness ==
  /\ Returned("closestAnchorVec2ByAngle")
  /\ \E i \in 1..Len(args.anchorsArray) :
       CandidateAngle(Value) >= CandidateAngle(CandidateVec2(i)) + ANGLE_TIE

\* C38: every effective drag-start (one not ignored because of resizing) sets
\* both currentPos and targetPos to the position of currentAnchor and clears
\* the recent delta, wherever the window is rendered at that moment, also in
\* the middle of a snap animation.
C38_DragStartsAtAnchor ==
  [][\A e \in MousePoints :
       DragStartStep(e) =>
         /\ targetPos' = anchorPos(St, currentAnchor)
         /\ currentPos' = anchorPos(St, currentAnchor)
         /\ lastMove' = ZERO
         /\ UNCHANGED <<currentAnchor, stylePos>>]_vars

\* the window was grabbed in the middle of a snap to another anchor: the drag
\* starts at that anchor while the element is still rendered on the way
C38_Witness ==
  /\ phase = "mounted" /\ isDragging /\ ~isResizing
  /\ events = 4
  /\ currentAnchor # anchorsArray[1]
  /\ lastMove = ZERO
  /\ targetPos = anchorPos(St, currentAnchor)
  /\ currentPos = targetPos
  /\ stylePos # currentPos
  /\ stylePos # anchorPos(St, anchorsArray[1])

\* C39: with resizing enabled, in every state after mount the width of the
\* window lies within [200, viewport width / 2] for the current viewport and
\* its height is width / (16 / 9), across resize-handle drags and viewport
\* resizes.
C39_SizeWithinRange ==
  (phase = "mounted" /\ resize) =>
    /\ WINDOW_MIN_WIDTH * SCALE <= styleSize.x
    /\ styleSize.x <= WINDOW_MAX_WIDTH(St)
    /\ AspectLocked(styleSize, ASPECT_RATIO)

====
